---- MODULE Spec2Model ----
(***************************************************************************)
(* Model of the fragment engine of HSV434-HSV_dashboard_py:                *)
(*   - the query planners of utils/run_gex_data_loader.py and              *)
(*     utils/run_pert_data_loader.py      (specification SpecPlan),        *)
(*   - the compactor utils/extra_auto_pert_parquet_merger.py               *)
(*     (specifications SpecMerge and SpecMergeTwo),                        *)
(*   - the background-job bookkeeping of pages/tabs/scrnaseq_gene_tab.py   *)
(*     (specification SpecJobs).                                           *)
(* One set of variables; each specification moves its own part and leaves  *)
(* the rest at its initial value.                                          *)
(***************************************************************************)
EXTENDS Integers, Sequences, FiniteSets, TLC

VARIABLES
    layout,      \* SpecPlan: schemas of the core and extension fragments, in enumeration order
    genes,       \* SpecPlan: the genes argument of the loaders ({} = None / empty list)
    gex_plan,    \* SpecPlan: what load_filtered_gex_data built
    pert_plan,   \* SpecPlan: what load_filtered_pert_data built
    fs,          \* SpecMerge*: DataWarehouse/Pert, file name -> content
    mp,          \* SpecMerge*: compactor process -> locals of merge_pert_files_duckdb
    flags,       \* SpecJobs: GENE_REFRESH_FLAGS, dataset -> status
    jobs,        \* SpecJobs: JOBS_IN_PROGRESS
    cache,       \* SpecJobs: GENE_LIST_CACHE, dataset -> cached gene list
    index,       \* SpecJobs: {prefix}_gex_genes.json, dataset -> genes listed
    procs,       \* SpecJobs: the R processes launched, with their monitor threads
    th,          \* SpecJobs: request threads of the dashboard, thread -> locals
    input,       \* SpecRows, SpecResolve, SpecDiscover: arguments and environment of one call
    output       \* SpecRows, SpecResolve, SpecDiscover: what the call returned

vars == <<layout, genes, gex_plan, pert_plan, fs, mp,
          flags, jobs, cache, index, procs, th, input, output>>

planVars == <<layout, genes, gex_plan, pert_plan>>
mergeVars == <<fs, mp>>
jobVars == <<flags, jobs, cache, index, procs, th>>
callVars == <<input, output>>

(***************************************************************************)
(* Bounds of the model.                                                    *)
(***************************************************************************)
NumGenes == 2
MaxExt == 2
\* the compactor's directory: gene columns and extension files
NumFsGenes == 1
MaxExtFiles == 2
\* the dashboard: datasets, genes a request may name, request threads, R processes launched
NumDatasets == 1
NumJobGenes == 1
NumThreads == 2
MaxLaunch == 2
\* successive runs of the compactor over one directory
MaxRuns == 2
\* query execution: key values, core rows, joined fragments, rows of one
\* fragment that repeat a key
NumKeys == 2
NumCoreRows == 1
NumJoined == 1
MaxDup == 2
\* row filters: values of CellType_Level3 and of Subject
NumClusters == 2
NumSubjects == 2
\* check_genes_availability: genes in the index, length of a request
NumIndexGenes == 1
MaxReq == 2

(***************************************************************************)
(* Column names.                                                           *)
(***************************************************************************)
GeneNames == <<"CD4", "CD8A", "FOXP3", "IFNG", "PRF1", "GZMB">>
Genes == {GeneNames[i] : i \in 1..NumGenes}

\* run_pert_data_loader.py: KEY_COLS
KEY_COLS == {"Subject", "CellType_Level3", "Status"}
\* extra_auto_pert_parquet_merger.py: JOIN_KEYS
JOIN_KEYS == <<"Subject", "CellType_Level3", "Status">>
\* run_gex_data_loader.py: required_cols
GexRequiredCols == {"Barcode", "UMAP_1", "UMAP_2", "CellType_Level3", "Subject", "Status"}
\* run_pert_data_loader.py: required_cols
PertRequiredCols == {"Subject", "CellType_Level3", "Status"}

CoreAlias == <<"core", 0>>
\* alias = f't{i}'
Alias(i) == <<"t", i>>

Range(s) == {s[i] : i \in DOMAIN s}

\* stands for the schema of a fragment whose DESCRIBE raises
DescribeError == {"<error>"}

(***************************************************************************)
(* load_filtered_gex_data: the query plan.  exts is the list ext_files as  *)
(* enumerated, each entry the column set DESCRIBE returns for it.          *)
(***************************************************************************)
GexNewColsAll(ext_cols, all_seen_cols) == ext_cols

GexNewCols(ext_cols, all_seen_cols) == ext_cols \ all_seen_cols

GexStep(st, ext_cols, i) ==
    LET alias == Alias(i)
        new_cols == GexNewCols(ext_cols, st.all_seen_cols)
    IN  IF ext_cols = DescribeError THEN st
        ELSE IF "Barcode" \notin ext_cols THEN st
        ELSE IF new_cols = {} THEN st
        ELSE [all_seen_cols |-> st.all_seen_cols \cup new_cols,
              col_to_table_map |->
                  [c \in (DOMAIN st.col_to_table_map) \cup new_cols |->
                      IF c \in new_cols THEN alias ELSE st.col_to_table_map[c]],
              join_clauses |-> Append(st.join_clauses, alias)]

RECURSIVE GexLoop(_, _, _)
GexLoop(st, exts, n) ==
    IF n = 0 THEN st
    ELSE GexStep(GexLoop(st, exts, n - 1), exts[n], n - 1)

SelectStrict(col_to_table_map, cols_to_select) ==
    IF cols_to_select \subseteq DOMAIN col_to_table_map
    THEN {<<col_to_table_map[c], c>> : c \in cols_to_select}
    ELSE {}

Select(col_to_table_map, cols_to_select) ==
    {<<col_to_table_map[c], c>> : c \in cols_to_select \cap DOMAIN col_to_table_map}

GexPlan(core_cols, exts, gene_list) ==
    LET st0 == [all_seen_cols |-> core_cols,
                col_to_table_map |-> [c \in core_cols |-> CoreAlias],
                join_clauses |-> <<>>]
        st == GexLoop(st0, exts, Len(exts))
        cols_to_select == GexRequiredCols \cup
                          (IF gene_list # {} THEN gene_list ELSE st.all_seen_cols)
    IN  [status |-> "ok",
         col_to_table_map |-> st.col_to_table_map,
         join_clauses |-> st.join_clauses,
         final_select_list |-> Select(st.col_to_table_map, cols_to_select),
         missing_cols |-> (cols_to_select \ DOMAIN st.col_to_table_map) \cap gene_list]

(***************************************************************************)
(* load_filtered_pert_data: the query plan.                                *)
(***************************************************************************)
PertPotentialNewCols(ext_cols, core_cols) == (ext_cols \ core_cols) \ KEY_COLS

PertStep(st, core_cols, ext_cols, i, gene_list) ==
    LET alias == Alias(i)
        potential_new_cols == PertPotentialNewCols(ext_cols, core_cols)
        cols_to_join == IF gene_list # {} THEN potential_new_cols \cap gene_list
                        ELSE potential_new_cols
    IN  IF ext_cols = DescribeError THEN st
        ELSE IF ~(KEY_COLS \subseteq ext_cols) THEN st
        ELSE IF cols_to_join = {} THEN st
        ELSE [col_to_table_map |->
                  [c \in (DOMAIN st.col_to_table_map) \cup cols_to_join |->
                      IF c \in cols_to_join THEN alias ELSE st.col_to_table_map[c]],
              join_clauses |-> Append(st.join_clauses, alias)]

RECURSIVE PertLoop(_, _, _, _, _)
PertLoop(st, core_cols, exts, n, gene_list) ==
    IF n = 0 THEN st
    ELSE PertStep(PertLoop(st, core_cols, exts, n - 1, gene_list),
                  core_cols, exts[n], n - 1, gene_list)

FailedPlan ==
    [status |-> "empty", col_to_table_map |-> <<>>, join_clauses |-> <<>>,
     final_select_list |-> {}, missing_cols |-> {}]

PertPlan(core_cols, exts, gene_list) ==
    IF ~(KEY_COLS \subseteq core_cols) THEN FailedPlan
    ELSE
    LET st0 == [col_to_table_map |-> [c \in core_cols |-> CoreAlias],
                join_clauses |-> <<>>]
        st == PertLoop(st0, core_cols, exts, Len(exts), gene_list)
        cols_to_select == PertRequiredCols \cup
                          (IF gene_list # {} THEN gene_list ELSE DOMAIN st.col_to_table_map)
    IN  [status |-> "ok",
         col_to_table_map |-> st.col_to_table_map,
         join_clauses |-> st.join_clauses,
         final_select_list |-> Select(st.col_to_table_map, cols_to_select),
         missing_cols |-> (cols_to_select \ DOMAIN st.col_to_table_map) \cap gene_list]


(***************************************************************************)
(* The parts of the state a specification does not move.                   *)
(***************************************************************************)
PlanIdle ==
    /\ layout = <<>> /\ genes = {} /\ gex_plan = <<>> /\ pert_plan = <<>>
MergeIdle ==
    /\ fs = <<>> /\ mp = <<>>
JobsIdle ==
    /\ flags = <<>> /\ jobs = {} /\ cache = <<>> /\ index = <<>>
    /\ procs = <<>> /\ th = <<>>
CallIdle ==
    /\ input = <<>> /\ output = <<>>

(***************************************************************************)
(* SpecPlan: the two planners applied to every bounded fragment layout.    *)
(* A layout gives, per domain, the column set of the core fragment and the *)
(* column sets of the extension fragments in the order glob / the listing  *)
(* returned them (every order is drawn).                                   *)
(***************************************************************************)
NoPlan ==
    [status |-> "none", col_to_table_map |-> <<>>, join_clauses |-> <<>>,
     final_select_list |-> {}, missing_cols |-> {}]

\* an extension fragment: its gene columns, and whether it carries the key columns
ExtShapes ==
    {[cols |-> g, keyed |-> TRUE] : g \in SUBSET Genes}
        \cup {[cols |-> Genes, keyed |-> FALSE]}

\* an extension fragment that cannot be read
CorruptShape == [cols |-> DescribeError, keyed |-> FALSE]

ExtSeqs == UNION {[1..n -> ExtShapes \cup {CorruptShape}] : n \in 0..MaxExt}

GexSchema(e) ==
    IF e = CorruptShape THEN DescribeError
    ELSE (IF e.keyed THEN {"Barcode"} ELSE {}) \cup e.cols
PertSchema(e) ==
    IF e = CorruptShape THEN DescribeError
    ELSE (IF e.keyed THEN KEY_COLS ELSE KEY_COLS \ {"Status"}) \cup e.cols

InitPlan ==
    /\ \E core \in [cols : SUBSET Genes, keyed : BOOLEAN], es \in ExtSeqs :
          layout = [gex_core |-> (IF core.keyed THEN GexRequiredCols
                                  ELSE GexRequiredCols \ {"Status"}) \cup core.cols,
                    gex_exts |-> [i \in DOMAIN es |-> GexSchema(es[i])],
                    pert_core |-> PertSchema(core),
                    pert_exts |-> [i \in DOMAIN es |-> PertSchema(es[i])]]
    /\ genes \in SUBSET Genes
    /\ gex_plan = NoPlan
    /\ pert_plan = NoPlan

\* load_filtered_gex_data(dataset_prefix, genes) up to the final SQL
RunGexQuery ==
    /\ gex_plan.status = "none"
    /\ gex_plan' = GexPlan(layout.gex_core, layout.gex_exts, genes)
    /\ UNCHANGED <<layout, genes, pert_plan>>

\* load_filtered_pert_data(dataset_prefix, genes) up to the final SQL
RunPertQuery ==
    /\ pert_plan.status = "none"
    /\ pert_plan' = PertPlan(layout.pert_core, layout.pert_exts, genes)
    /\ UNCHANGED <<layout, genes, gex_plan>>


NextPlan ==
    \/ (RunGexQuery /\ UNCHANGED <<mergeVars, jobVars, callVars>>)
    \/ (RunPertQuery /\ UNCHANGED <<mergeVars, jobVars, callVars>>)

PlanStart == InitPlan /\ MergeIdle /\ JobsIdle /\ CallIdle

SpecPlan == PlanStart /\ [][NextPlan]_vars

(***************************************************************************)
(* Helpers of the claims about plans.                                      *)
(***************************************************************************)
GexValid(ext_cols) == "Barcode" \in ext_cols
PertValid(ext_cols) == KEY_COLS \subseteq ext_cols

\* 0-based positions of the valid extension fragments that carry column c
GexCarriers(c) ==
    {i - 1 : i \in {j \in DOMAIN layout.gex_exts :
                        GexValid(layout.gex_exts[j]) /\ c \in layout.gex_exts[j]}}
PertCarriers(c) ==
    {i - 1 : i \in {j \in DOMAIN layout.pert_exts :
                        PertValid(layout.pert_exts[j]) /\ c \in layout.pert_exts[j]}}

Min(S) == CHOOSE x \in S : \A y \in S : x <= y

\* C1: a column of the core fragment is mapped to the core alias by both
\* planners, whatever the extension fragments hold and in whatever order they
\* were enumerated, and is selected from core whenever it is selected.
C1_CorePrecedence ==
    /\ gex_plan.status = "ok" =>
          \A c \in layout.gex_core :
              /\ gex_plan.col_to_table_map[c] = CoreAlias
              /\ \A s \in gex_plan.final_select_list : s[2] = c => s[1] = CoreAlias
    /\ pert_plan.status = "ok" =>
          \A c \in layout.pert_core :
              /\ pert_plan.col_to_table_map[c] = CoreAlias
              /\ \A s \in pert_plan.final_select_list : s[2] = c => s[1] = CoreAlias

\* C1 witness: both plans built, a core gene column is also carried by two
\* valid extension fragments of each domain, and it is selected.
C1_Witness ==
    /\ gex_plan.status = "ok"
    /\ pert_plan.status = "ok"
    /\ \E c \in Genes :
          /\ c \in layout.gex_core /\ c \in layout.pert_core
          /\ Cardinality(GexCarriers(c)) >= 2
          /\ Cardinality(PertCarriers(c)) >= 2
          /\ <<CoreAlias, c>> \in gex_plan.final_select_list
          /\ <<CoreAlias, c>> \in pert_plan.final_select_list

\* C2: a mapped non-core column is mapped to the first valid extension
\* fragment, in enumeration order, that carries it (both planners).
C2_ExtensionPrecedence ==
    /\ gex_plan.status = "ok" =>
          \A c \in DOMAIN gex_plan.col_to_table_map :
              c \notin layout.gex_core =>
                  gex_plan.col_to_table_map[c] = Alias(Min(GexCarriers(c)))
    /\ pert_plan.status = "ok" =>
          \A c \in DOMAIN pert_plan.col_to_table_map :
              c \notin layout.pert_core =>
                  pert_plan.col_to_table_map[c] = Alias(Min(PertCarriers(c)))

\* C3: with an explicit gene list, every joined extension fragment supplies
\* at least one column of the final select list (both planners).
C3_Pruning ==
    /\ (gex_plan.status = "ok" /\ genes # {}) =>
          \A k \in DOMAIN gex_plan.join_clauses :
              \E s \in gex_plan.final_select_list : s[1] = gex_plan.join_clauses[k]
    /\ (pert_plan.status = "ok" /\ genes # {}) =>
          \A k \in DOMAIN pert_plan.join_clauses :
              \E s \in pert_plan.final_select_list : s[1] = pert_plan.join_clauses[k]

(***************************************************************************)
(* The directory DataWarehouse/Pert of one dataset prefix.  A file name is *)
(* <<prefix, domain, tag, suffix>> for {prefix}_{domain}_{tag}{suffix}.    *)
(***************************************************************************)
Prefix == "tcell"
FsGenes == {GeneNames[i] : i \in 1..NumFsGenes}
TagNames == <<"a", "b", "c", "d">>
ExtTags == {TagNames[i] : i \in 1..MaxExtFiles}

\* merger: core_path = os.path.join(DATA_PATH, f"{prefix}_pert_core.parquet")
CorePath == <<Prefix, "pert", "core", ".parquet">>
\* merger: temp_output_path = core_path + ".tmp"
TempOutputPath == <<Prefix, "pert", "core", ".parquet.tmp">>
\* pert loader: local_core_path = .../Pert/{dataset_prefix}_gex_core.parquet
LocalCorePath == <<Prefix, "gex", "core", ".parquet">>
ExtPath(tag) == <<Prefix, "pert", tag, ".parquet">>

FileNames == {CorePath, TempOutputPath, LocalCorePath} \cup {ExtPath(t) : t \in ExtTags}

Absent == [state |-> "absent", cols |-> {}]
File(cols) == [state |-> "complete", cols |-> cols]
Exists(f, name) == f[name].state # "absent"

GlobPertAnySuffix(f) ==
    {n \in FileNames : Exists(f, n) /\ n[1] = Prefix /\ n[2] = "pert"}

\* glob.glob(os.path.join(dir, f"{prefix}_pert_*.parquet")) over directory f
GlobPert(f) ==
    {n \in FileNames : Exists(f, n) /\ n[1] = Prefix /\ n[2] = "pert" /\ n[4] = ".parquet"}

\* the orders in which a listing may return the set S
Orders(S) == {s \in [1..Cardinality(S) -> S] : Range(s) = S}

RECURSIVE SetToSeq(_)
SetToSeq(S) ==
    IF S = {} THEN <<>>
    ELSE LET x == CHOOSE y \in S : TRUE IN <<x>> \o SetToSeq(S \ {x})

\* DuckDB names the columns a COPY writes: the k-th repetition of a name
\* already used becomes name_k
RECURSIVE Repeats(_, _, _)
Repeats(names, n, c) ==
    IF n = 0 THEN 0 ELSE Repeats(names, n - 1, c) + (IF names[n] = c THEN 1 ELSE 0)

WrittenCols(names) ==
    {IF Repeats(names, i - 1, names[i]) = 0 THEN names[i]
     ELSE names[i] \o "_" \o ToString(Repeats(names, i - 1, names[i])) :
        i \in DOMAIN names}

(***************************************************************************)
(* merge_pert_files_duckdb(prefix), one step per file-system or database   *)
(* call.  mp[p] holds the locals of compactor process p.                   *)
(***************************************************************************)
Compactors == {"c1", "c2"}

MergeLocals ==
    [pc |-> "idle", ext_files |-> <<>>, i |-> 1, core_cols |-> {},
     join_clauses_sql |-> <<>>, all_new_cols_sql |-> <<>>,
     files_merged_successfully |-> <<>>, temp_bound |-> FALSE,
     wrote_temp |-> FALSE, replaced |-> FALSE, removed |-> {},
     outcome |-> "none", start_fs |-> <<>>,
     err |-> FALSE, bad |-> {}, rm_failed |-> {}, run |-> 1, prev |-> <<>>]

\* lines 33-37: if not os.path.exists(core_path): return
M_Start(p) ==
    /\ mp[p].pc = "idle"
    /\ IF Exists(fs, CorePath)
       THEN mp' = [mp EXCEPT ![p].pc = "glob", ![p].start_fs = fs]
       ELSE mp' = [mp EXCEPT ![p].pc = "done", ![p].outcome = "no_core",
                             ![p].start_fs = fs]
    /\ UNCHANGED fs

MergerExtSet(f) == {n \in GlobPert(f) : n # CorePath}

M_GlobNoReturn(p) ==
    /\ mp[p].pc = "glob"
    /\ \E files \in Orders(MergerExtSet(fs)) :
          mp' = [mp EXCEPT ![p].pc = "view", ![p].ext_files = files]
    /\ UNCHANGED fs

\* lines 39-48: glob, drop the core, return when nothing is left
M_Glob(p) ==
    /\ mp[p].pc = "glob"
    /\ \E files \in Orders(MergerExtSet(fs)) :
          IF files = <<>>
          THEN mp' = [mp EXCEPT ![p].pc = "done", ![p].outcome = "no_ext"]
          ELSE mp' = [mp EXCEPT ![p].pc = "view", ![p].ext_files = files]
    /\ UNCHANGED fs

\* lines 50-54: CREATE VIEW core, outside the try: an error leaves the function
M_CreateView(p) ==
    /\ mp[p].pc = "view"
    /\ \/ /\ fs[CorePath].state = "complete"
          /\ mp' = [mp EXCEPT ![p].pc = "describe"]
       \/ mp' = [mp EXCEPT ![p].pc = "done", ![p].outcome = "raised"]
    /\ UNCHANGED fs

\* lines 57-64: DESCRIBE core
M_DescribeCore(p) ==
    /\ mp[p].pc = "describe"
    /\ \/ /\ fs[CorePath].state = "complete"
          /\ mp' = [mp EXCEPT ![p].pc = "inspect", ![p].i = 1,
                              ![p].core_cols = fs[CorePath].cols]
       \/ mp' = [mp EXCEPT ![p].pc = "handler"]
    /\ UNCHANGED fs

HasJoinKeysAny(ext_cols) == TRUE

\* line 73: all(k in ext_cols for k in JOIN_KEYS)
HasJoinKeys(ext_cols) == \A k \in DOMAIN JOIN_KEYS : JOIN_KEYS[k] \in ext_cols

MergeNewColsNoCore(ext_cols, core_cols) ==
    SetToSeq({c \in ext_cols : c \notin Range(JOIN_KEYS)})

\* lines 78-81: new_cols
MergeNewCols(ext_cols, core_cols) ==
    SetToSeq({c \in ext_cols : c \notin core_cols /\ c \notin Range(JOIN_KEYS)})

M_InspectFatal(p) ==
    /\ mp[p].pc = "inspect"
    /\ mp[p].i <= Len(mp[p].ext_files)
    /\ LET f_path == mp[p].ext_files[mp[p].i]
           alias == Alias(mp[p].i - 1)
           ext_cols == fs[f_path].cols
           new_cols == MergeNewCols(ext_cols, mp[p].core_cols)
       IN  \/ \* DESCRIBE raised
              mp' = [mp EXCEPT ![p].pc = "handler", ![p].err = TRUE,
                               ![p].bad = @ \cup {f_path}]
           \/ /\ fs[f_path].state = "complete"
              /\ IF ~HasJoinKeys(ext_cols)
                 THEN mp' = [mp EXCEPT ![p].i = @ + 1]
                 ELSE IF new_cols = <<>>
                 THEN mp' = [mp EXCEPT ![p].i = @ + 1,
                                ![p].files_merged_successfully = Append(@, f_path)]
                 ELSE mp' = [mp EXCEPT ![p].i = @ + 1,
                                ![p].join_clauses_sql = Append(@, f_path),
                                ![p].all_new_cols_sql =
                                    @ \o [k \in DOMAIN new_cols |-> <<alias, new_cols[k]>>],
                                ![p].files_merged_successfully = Append(@, f_path)]
    /\ UNCHANGED fs

\* lines 67-104: one pass of the loop over ext_files
M_Inspect(p) ==
    /\ mp[p].pc = "inspect"
    /\ mp[p].i <= Len(mp[p].ext_files)
    /\ LET f_path == mp[p].ext_files[mp[p].i]
           alias == Alias(mp[p].i - 1)
           ext_cols == fs[f_path].cols
           new_cols == MergeNewCols(ext_cols, mp[p].core_cols)
       IN  \/ \* DESCRIBE raised: logged, next file
              mp' = [mp EXCEPT ![p].i = @ + 1, ![p].err = TRUE,
                               ![p].bad = @ \cup {f_path}]
           \/ /\ fs[f_path].state = "complete"
              /\ IF ~HasJoinKeys(ext_cols)
                 THEN mp' = [mp EXCEPT ![p].i = @ + 1]
                 ELSE IF new_cols = <<>>
                 THEN mp' = [mp EXCEPT ![p].i = @ + 1,
                                ![p].files_merged_successfully = Append(@, f_path)]
                 ELSE mp' = [mp EXCEPT ![p].i = @ + 1,
                                ![p].join_clauses_sql = Append(@, f_path),
                                ![p].all_new_cols_sql =
                                    @ \o [k \in DOMAIN new_cols |-> <<alias, new_cols[k]>>],
                                ![p].files_merged_successfully = Append(@, f_path)]
    /\ UNCHANGED fs

M_DecideNoCleanup(p) ==
    /\ mp[p].pc = "inspect"
    /\ mp[p].i > Len(mp[p].ext_files)
    /\ IF mp[p].all_new_cols_sql = <<>>
       THEN mp' = [mp EXCEPT ![p].pc = "done", ![p].outcome = "no_new_columns"]
       ELSE mp' = [mp EXCEPT ![p].pc = "copy", ![p].temp_bound = TRUE]
    /\ UNCHANGED fs

\* lines 106-120: after the loop
M_Decide(p) ==
    /\ mp[p].pc = "inspect"
    /\ mp[p].i > Len(mp[p].ext_files)
    /\ IF mp[p].all_new_cols_sql = <<>>
       THEN IF mp[p].files_merged_successfully # <<>>
            THEN mp' = [mp EXCEPT ![p].pc = "cleanup", ![p].i = 1]
            ELSE mp' = [mp EXCEPT ![p].pc = "done", ![p].outcome = "no_new_columns"]
       ELSE mp' = [mp EXCEPT ![p].pc = "copy", ![p].temp_bound = TRUE]
    /\ UNCHANGED fs

\* os.remove(f) inside try/except: removes the file or logs the failure
Remove(p, f) ==
    \/ /\ Exists(fs, f)
       /\ fs' = [fs EXCEPT ![f] = Absent]
       /\ mp' = [mp EXCEPT ![p].i = @ + 1, ![p].removed = @ \cup {f}]
    \/ /\ fs' = fs
       /\ mp' = [mp EXCEPT ![p].i = @ + 1, ![p].rm_failed = @ \cup {f}]

\* lines 108-117: clean-up when no file brought a new column
M_Cleanup(p) ==
    /\ mp[p].pc = "cleanup"
    /\ IF mp[p].i <= Len(mp[p].files_merged_successfully)
       THEN Remove(p, mp[p].files_merged_successfully[mp[p].i])
       ELSE /\ mp' = [mp EXCEPT ![p].pc = "done", ![p].outcome = "cleaned"]
            /\ UNCHANGED fs

\* the inputs of the COPY can be read and joined on the keys
CopyInputsOk(p) ==
    /\ fs[CorePath].state = "complete"
    /\ HasJoinKeys(fs[CorePath].cols)
    /\ \A k \in DOMAIN mp[p].join_clauses_sql :
          /\ fs[mp[p].join_clauses_sql[k]].state = "complete"
          /\ HasJoinKeys(fs[mp[p].join_clauses_sql[k]].cols)

\* line 122: final_select_sql = "core.*, " + ", ".join(all_new_cols_sql)
FinalSelect(p) ==
    SetToSeq(fs[CorePath].cols)
        \o [k \in DOMAIN mp[p].all_new_cols_sql |-> mp[p].all_new_cols_sql[k][2]]

CopyTargetCore == CorePath

\* line 129: COPY ... TO temp_output_path
CopyTarget == TempOutputPath

\* lines 124-133: the COPY starts writing its target
M_CopyOpen(p) ==
    /\ mp[p].pc = "copy"
    /\ \/ /\ CopyInputsOk(p)
          /\ fs' = [fs EXCEPT ![CopyTarget] =
                        [state |-> "partial", cols |-> WrittenCols(FinalSelect(p))]]
          /\ mp' = [mp EXCEPT ![p].pc = "copying", ![p].wrote_temp = TRUE]
       \/ /\ mp' = [mp EXCEPT ![p].pc = "handler"]
          /\ UNCHANGED fs

M_CopyCloseSkipReplace(p) ==
    /\ mp[p].pc = "copying"
    /\ \/ /\ Exists(fs, CopyTarget)
          /\ fs' = [fs EXCEPT ![CopyTarget].state = "complete"]
          /\ mp' = [mp EXCEPT ![p].pc = "remove", ![p].i = 1]
       \/ /\ mp' = [mp EXCEPT ![p].pc = "handler"]
          /\ UNCHANGED fs

\* lines 133-134: the COPY ends, or raises with the target half written
M_CopyClose(p) ==
    /\ mp[p].pc = "copying"
    /\ \/ /\ Exists(fs, CopyTarget)
          /\ fs' = [fs EXCEPT ![CopyTarget].state = "complete"]
          /\ mp' = [mp EXCEPT ![p].pc = "replace"]
       \/ /\ mp' = [mp EXCEPT ![p].pc = "handler"]
          /\ UNCHANGED fs

\* line 138: os.replace(temp_output_path, core_path)
M_Replace(p) ==
    /\ mp[p].pc = "replace"
    /\ \/ /\ Exists(fs, TempOutputPath)
          /\ fs' = [fs EXCEPT ![CorePath] = fs[TempOutputPath],
                              ![TempOutputPath] = Absent]
          /\ mp' = [mp EXCEPT ![p].pc = "remove", ![p].i = 1, ![p].replaced = TRUE]
       \/ /\ mp' = [mp EXCEPT ![p].pc = "handler"]
          /\ UNCHANGED fs

\* lines 141-147: delete the merged files
M_Remove(p) ==
    /\ mp[p].pc = "remove"
    /\ IF mp[p].i <= Len(mp[p].files_merged_successfully)
       THEN Remove(p, mp[p].files_merged_successfully[mp[p].i])
       ELSE /\ mp' = [mp EXCEPT ![p].pc = "done", ![p].outcome = "merged"]
            /\ UNCHANGED fs

\* lines 149-155: except Exception: close, remove the temp file if it exists.
\* temp_output_path is assigned at line 120: before that the handler itself
\* raises (unbound local) and daily_merge logs it.
M_Handler(p) ==
    /\ mp[p].pc = "handler"
    /\ IF mp[p].temp_bound
       THEN /\ fs' = [fs EXCEPT ![TempOutputPath] = Absent]
            /\ mp' = [mp EXCEPT ![p].pc = "done", ![p].outcome = "failed"]
       ELSE /\ mp' = [mp EXCEPT ![p].pc = "done", ![p].outcome = "raised"]
            /\ UNCHANGED fs

MergeStep(p) ==
    \/ M_Start(p)
    \/ M_Glob(p)
    \/ M_CreateView(p)
    \/ M_DescribeCore(p)
    \/ M_Inspect(p)
    \/ M_Decide(p)
    \/ M_Cleanup(p)
    \/ M_CopyOpen(p)
    \/ M_CopyClose(p)
    \/ M_Replace(p)
    \/ M_Remove(p)
    \/ M_Handler(p)

\* the directory before a compaction: the core, the loader's local core and
\* each extension file are absent or hold one of the bounded schemas; the
\* temporary file is absent, or was left half written by a run that was
\* killed during its COPY
FsShapes ==
    {[cols |-> g, keyed |-> TRUE] : g \in SUBSET FsGenes}
        \cup {[cols |-> FsGenes, keyed |-> FALSE]}
FsFiles == {Absent} \cup {File(PertSchema(e)) : e \in FsShapes}

StaleTemp == [state |-> "partial", cols |-> KEY_COLS]

InitFs ==
    /\ fs \in [FileNames -> FsFiles \cup {StaleTemp}]
    /\ fs[TempOutputPath] \in {Absent, StaleTemp}
    /\ \A n \in FileNames \ {TempOutputPath} : fs[n] \in FsFiles
    /\ fs[LocalCorePath] \in {Absent, File(KEY_COLS)}

InitMerge ==
    /\ InitFs
    /\ mp = [p \in Compactors |-> MergeLocals]

NextMerge == MergeStep("c1") /\ UNCHANGED <<planVars, jobVars, callVars>>

MergeStart == InitMerge /\ PlanIdle /\ JobsIdle /\ CallIdle

SpecMerge == MergeStart /\ [][NextMerge]_vars

(***************************************************************************)
(* SpecMergeAgain: the merge job is run again over the directory the       *)
(* earlier, error-free run left, with no file arriving in between.         *)
(***************************************************************************)
\* lines 157-168: the script is run again after a run that met no error
\* (no failed merge, no schema read that raised); prev keeps how that run ended
M_Again(p) ==
    /\ mp[p].pc = "done"
    /\ mp[p].run < MaxRuns
    /\ ~mp[p].err
    /\ mp[p].outcome \notin {"failed", "raised"}
    /\ mp' = [mp EXCEPT ![p] =
                 [MergeLocals EXCEPT !.run = mp[p].run + 1,
                                     !.prev = [outcome |-> mp[p].outcome,
                                               core_cols |-> fs[CorePath].cols,
                                               rm_failed |-> mp[p].rm_failed]]]
    /\ UNCHANGED fs

NextMergeAgain ==
    (MergeStep("c1") \/ M_Again("c1")) /\ UNCHANGED <<planVars, jobVars, callVars>>

SpecMergeAgain == MergeStart /\ [][NextMergeAgain]_vars

(***************************************************************************)
(* load_filtered_pert_data(prefix, genes=None, force_s3=False) over the    *)
(* directory f: the columns of the table it returns.  Without the local    *)
(* core file the loader reads the bucket, which is no part of f.           *)
(***************************************************************************)
PertLocalExtFiles(f) == SetToSeq({n \in GlobPert(f) : n # LocalCorePath})

PertAllCols(f) ==
    IF Exists(f, LocalCorePath)
    THEN LET ext_files == PertLocalExtFiles(f)
             plan == PertPlan(f[LocalCorePath].cols,
                              [k \in DOMAIN ext_files |-> f[ext_files[k]].cols], {})
         IN  [source |-> "local", cols |-> {s[2] : s \in plan.final_select_list}]
    ELSE [source |-> "s3", cols |-> {}]

(***************************************************************************)
(* Claims about the compactor (one compactor, c1, as SpecMerge runs it).   *)
(***************************************************************************)
\* C4: when a compaction run ended in an error and os.replace had not
\* completed, the core file and every extension file are as they were when
\* the run started, and the temporary file does not exist.
C4_CrashSafety ==
    (/\ mp["c1"].pc = "done"
     /\ mp["c1"].outcome \in {"failed", "raised"}
     /\ ~mp["c1"].replaced)
    => /\ ~Exists(fs, TempOutputPath)
       /\ \A n \in FileNames \ {TempOutputPath} : fs[n] = mp["c1"].start_fs[n]

\* C5 as stated: a run that has removed an extension file has completed
\* os.replace before.
C5_RemoveOnlyAfterReplace ==
    mp["c1"].removed # {} => mp["c1"].replaced

\* C5 amended: a run that has removed an extension file has completed
\* os.replace before, or it found no new column in any fragment, did no
\* replace, and removed only fragments that have every join key and no
\* column outside the core.
C5_RemoveAfterReplaceOrTrivial ==
    mp["c1"].removed # {} =>
        \/ mp["c1"].replaced
        \/ /\ mp["c1"].all_new_cols_sql = <<>>
           /\ ~mp["c1"].wrote_temp
           /\ \A n \in mp["c1"].removed :
                 /\ HasJoinKeys(mp["c1"].start_fs[n].cols)
                 /\ mp["c1"].start_fs[n].cols \subseteq
                        mp["c1"].start_fs[CorePath].cols \cup Range(JOIN_KEYS)

\* C5 witness: a fragment that brought a new column has been removed, after
\* the replace.
C5_Witness ==
    /\ mp["c1"].replaced
    /\ \E n \in mp["c1"].removed :
          ~(mp["c1"].start_fs[n].cols \subseteq mp["c1"].start_fs[CorePath].cols)

\* the core the run is meant to produce: the core columns it started with,
\* then the new columns it collected
ExpectedCore(p) ==
    File(WrittenCols(
        SetToSeq(mp[p].start_fs[CorePath].cols)
            \o [k \in DOMAIN mp[p].all_new_cols_sql |-> mp[p].all_new_cols_sql[k][2]]))

CoreIsPreOrPost ==
    mp["c1"].pc # "idle" =>
        /\ fs[CorePath].state # "partial"
        /\ \/ fs[CorePath] = mp["c1"].start_fs[CorePath]
           \/ mp["c1"].replaced /\ fs[CorePath] = ExpectedCore("c1")

CoreChangesOnlyByReplace ==
    /\ fs'[CorePath] # fs[CorePath] =>
          /\ fs[TempOutputPath].state = "complete"
          /\ fs'[CorePath] = fs[TempOutputPath]
          /\ ~Exists(fs', TempOutputPath)
    /\ \A n \in FileNames : fs'[n].state = "partial" => n = TempOutputPath

\* C6: during a compaction the core path always holds the complete
\* pre-compaction core or the complete post-compaction core; only the
\* temporary path is ever partially written, and the core path changes only
\* in the one step that moves the complete temporary file onto it.
C6_NoPartialCore == [](CoreIsPreOrPost) /\ [][CoreChangesOnlyByReplace]_vars

\* C6 witness: the widened table is half written while the core path still
\* holds the complete pre-compaction core.
C6_Witness ==
    /\ mp["c1"].pc = "copying"
    /\ fs[TempOutputPath].state = "partial"
    /\ fs[CorePath] = mp["c1"].start_fs[CorePath]
    /\ fs[CorePath].state = "complete"

\* C10: after a successful compaction the all-columns Pert query returns
\* the column set it returned before the compaction.
C10_SelectTransparent ==
    (mp["c1"].pc = "done" /\ mp["c1"].outcome = "merged")
        => PertAllCols(fs) = PertAllCols(mp["c1"].start_fs)

\* an earlier run that met no error: it did not fail and read every schema
PrevRunClean(p) ==
    /\ mp[p].run > 1
    /\ mp[p].prev.outcome \notin {"failed", "raised"}

StoreStart == PlanStart \/ MergeStart

NextStore ==
    \/ (layout # <<>> /\ NextPlan)
    \/ (mp # <<>> /\ NextMerge)

SpecStore == StoreStart /\ [][NextStore]_vars

\* 1-based position in ext_files of the fragment a join alias stands for
AliasPos(alias) == alias[2] + 1

\* C12, the loaders: a joined fragment, and the fragment any column is mapped
\* to, has the key column(s) of its domain
KeylessNeverPlanned ==
    /\ gex_plan.status = "ok" =>
          /\ \A k \in DOMAIN gex_plan.join_clauses :
                GexValid(layout.gex_exts[AliasPos(gex_plan.join_clauses[k])])
          /\ \A c \in DOMAIN gex_plan.col_to_table_map :
                gex_plan.col_to_table_map[c] # CoreAlias =>
                    GexValid(layout.gex_exts[AliasPos(gex_plan.col_to_table_map[c])])
    /\ pert_plan.status = "ok" =>
          /\ \A k \in DOMAIN pert_plan.join_clauses :
                PertValid(layout.pert_exts[AliasPos(pert_plan.join_clauses[k])])
          /\ \A c \in DOMAIN pert_plan.col_to_table_map :
                pert_plan.col_to_table_map[c] # CoreAlias =>
                    PertValid(layout.pert_exts[AliasPos(pert_plan.col_to_table_map[c])])

\* C12, the compactor: a fragment without every join key is not joined,
\* gives no column, is not recorded as merged and stays as it was; every
\* file removed was recorded as merged in this run
KeylessNeverMerged(p) ==
    mp[p].pc # "idle" =>
        /\ \A k \in DOMAIN mp[p].join_clauses_sql :
              PertValid(mp[p].start_fs[mp[p].join_clauses_sql[k]].cols)
        /\ \A k \in DOMAIN mp[p].all_new_cols_sql :
              PertValid(mp[p].start_fs[
                  mp[p].ext_files[AliasPos(mp[p].all_new_cols_sql[k][1])]].cols)
        /\ \A k \in DOMAIN mp[p].files_merged_successfully :
              PertValid(mp[p].start_fs[mp[p].files_merged_successfully[k]].cols)
        /\ mp[p].removed \subseteq Range(mp[p].files_merged_successfully)
        /\ \A n \in FileNames \ {CorePath, TempOutputPath} :
              ~PertValid(mp[p].start_fs[n].cols) => fs[n] = mp[p].start_fs[n]

\* C12: an extension fragment that lacks a key column is never joined by a
\* query plan of either loader, never contributes a column to a compaction
\* and is never deleted by the compactor; the compactor deletes only files it
\* recorded as merged in that run.
C12_KeylessExcluded ==
    /\ layout # <<>> => KeylessNeverPlanned
    /\ mp # <<>> => KeylessNeverMerged("c1")

\* C12 witness: a compaction merged and removed a fragment while a fragment
\* without the Status key sat in the same directory.
C12_Witness ==
    /\ mp # <<>>
    /\ mp["c1"].pc = "done"
    /\ mp["c1"].outcome = "merged"
    /\ mp["c1"].removed # {}
    /\ \E n \in Range(mp["c1"].ext_files) :
          /\ ~PertValid(mp["c1"].start_fs[n].cols)
          /\ Exists(fs, n)

(***************************************************************************)
(* SpecMergeTwo: two calls of merge_pert_files_duckdb for the same prefix  *)
(* started concurrently (two daily_merge runs).  The function takes no     *)
(* lock and consults no job table.                                         *)
(***************************************************************************)
NextMergeTwo == \E p \in Compactors : MergeStep(p) /\ UNCHANGED <<planVars, jobVars, callVars>>

SpecMergeTwo == MergeStart /\ [][NextMergeTwo]_vars

\* a run that has passed the early returns and not yet ended
Executing(p) == mp[p].pc \notin {"idle", "glob", "done"}
\* a run that has written, replaced or removed a file
DidFileOps(p) == mp[p].wrote_temp \/ mp[p].replaced \/ mp[p].removed # {}

\* C7: of two compactions of one dataset started concurrently, only one
\* executes the merge; the other performs no file operation.
C7_SingleFlight ==
    /\ ~(Executing("c1") /\ Executing("c2"))
    /\ ~(DidFileOps("c1") /\ DidFileOps("c2"))

(***************************************************************************)
(* The background-job bookkeeping of pages/tabs/scrnaseq_gene_tab.py:      *)
(* GENE_REFRESH_FLAGS, JOBS_IN_PROGRESS, GENE_LIST_CACHE, the dashboard's  *)
(* request threads (the server runs callbacks on concurrent threads, with  *)
(* no lock around these globals) and one monitor thread per R process.     *)
(***************************************************************************)
DatasetNames == <<"tcell", "myeloid", "bcell">>
Datasets == {DatasetNames[i] : i \in 1..NumDatasets}
JobGenes == {GeneNames[i] : i \in 1..NumJobGenes}
Threads == 1..NumThreads

\* a cache entry: the list, and the background processes that had ended when
\* the list was read
NoCache == [present |-> FALSE, data |-> {}, seen |-> {}]

ThreadIdle ==
    [pc |-> "idle", d |-> "", requested |-> {}, available |-> {}, missing |-> {},
     ret |-> "", data |-> {}, seen |-> {}, loaded |-> ""]

\* get_refresh_flag(dataset_prefix)
get_refresh_flag(d) == flags[d]

\* key = (dataset_prefix, tuple(sorted(genes_to_extract)))
JobKey(d, genes_to_extract) == <<d, genes_to_extract>>

InitJobs ==
    /\ flags = [d \in Datasets |-> "idle"]
    /\ jobs = {}
    /\ cache = [d \in Datasets |-> NoCache]
    /\ index \in [Datasets -> SUBSET JobGenes]
    /\ procs = <<>>
    /\ th = [t \in Threads |-> ThreadIdle]

\* "Run Analysis": update_gene_tab_plots starts on thread t with valid genes
U_Begin(t) ==
    /\ th[t].pc = "idle"
    /\ \E d \in Datasets, g \in (SUBSET JobGenes) \ {{}} :
          th' = [th EXCEPT ![t] = [ThreadIdle EXCEPT !.pc = "u_clear", !.d = d,
                                                     !.requested = g]]
    /\ UNCHANGED <<flags, jobs, cache, index, procs>>

\* the polling interval fires: auto_refresh_gene_data starts on thread t
A_Begin(t) ==
    /\ th[t].pc = "idle"
    /\ \E d \in Datasets :
          th' = [th EXCEPT ![t] = [ThreadIdle EXCEPT !.pc = "a_poll", !.d = d]]
    /\ UNCHANGED <<flags, jobs, cache, index, procs>>

CheckClearAll(t, next) ==
    /\ cache' = [d \in DOMAIN cache |-> NoCache]
    /\ th' = [th EXCEPT ![t].pc = next]
    /\ UNCHANGED <<flags, jobs, index, procs>>

\* check_genes_availability, lines 182-183: del GENE_LIST_CACHE[dataset_prefix]
CheckClear(t, next) ==
    /\ cache' = [cache EXCEPT ![th[t].d] = NoCache]
    /\ th' = [th EXCEPT ![t].pc = next]
    /\ UNCHANGED <<flags, jobs, index, procs>>

\* get_gene_list(force_s3=True), lines 138-165: the index is read, or the
\* read raises and the list stays empty
CheckRead(t, next) ==
    /\ \E data \in {index[th[t].d], {}} :
          th' = [th EXCEPT ![t].data = data,
                           ![t].seen = {i \in DOMAIN procs : procs[i].pc # "running"},
                           ![t].pc = next]
    /\ UNCHANGED <<flags, jobs, cache, index, procs>>

\* get_gene_list, lines 167-170, and check_genes_availability, lines 188-199:
\* a non-empty list is cached, and the request is split into found and missing
CheckLoad(t, requested_genes, nextMissing, nextNone) ==
    LET data == th[t].data
        found == requested_genes \cap data
        missing == requested_genes \ data
        next == IF missing # {} THEN nextMissing ELSE nextNone
    IN  /\ cache' = IF data # {}
                    THEN [cache EXCEPT ![th[t].d] =
                             [present |-> TRUE, data |-> data, seen |-> th[t].seen]]
                    ELSE cache
        /\ th' = [th EXCEPT ![t] =
                     IF next = "idle" THEN ThreadIdle
                     ELSE [th[t] EXCEPT !.requested = {}, !.available = found,
                                        !.missing = missing, !.pc = next,
                                        !.data = {}, !.seen = {}]]
        /\ UNCHANGED <<flags, jobs, index, procs>>

U_CheckClear(t) == th[t].pc = "u_clear" /\ CheckClear(t, "u_read")
U_CheckRead(t) == th[t].pc = "u_read" /\ CheckRead(t, "u_load")
\* with nothing missing the callback loads and plots what is available and returns
U_CheckLoad(t) == th[t].pc = "u_load" /\ CheckLoad(t, th[t].requested, "u_flag", "idle")

\* set_refresh_flag(dataset_prefix, status)
set_refresh_flag(d, status) == flags' = [flags EXCEPT ![d] = status]

\* update_gene_tab_plots, lines 450-453: set_refresh_flag(..., "running"),
\* then run_precompute_r_async
U_SetRunning(t) ==
    /\ th[t].pc = "u_flag"
    /\ set_refresh_flag(th[t].d, "running")
    /\ th' = [th EXCEPT ![t].pc = "r_check", ![t].ret = "u_after"]
    /\ UNCHANGED <<jobs, cache, index, procs>>

\* run_precompute_r_async returns to its caller: to line 455 after the first
\* call, out of the callback after the second
Return(t) ==
    IF th[t].ret = "idle" THEN ThreadIdle ELSE [th[t] EXCEPT !.pc = th[t].ret]

\* run_precompute_r_async, lines 225-228: if key in JOBS_IN_PROGRESS: return
R_Check(t) ==
    /\ th[t].pc = "r_check"
    /\ th' = [th EXCEPT ![t] =
                 IF JobKey(th[t].d, th[t].missing) \in jobs THEN Return(t)
                 ELSE [th[t] EXCEPT !.pc = "r_add"]]
    /\ UNCHANGED <<flags, jobs, cache, index, procs>>

\* run_precompute_r_async, line 230: JOBS_IN_PROGRESS.add(key)
R_Add(t) ==
    /\ th[t].pc = "r_add"
    /\ jobs' = jobs \cup {JobKey(th[t].d, th[t].missing)}
    /\ th' = [th EXCEPT ![t].pc = "r_launch"]
    /\ UNCHANGED <<flags, cache, index, procs>>

\* run_precompute_r_async, lines 238-281: Popen and the monitor thread, or
\* the launch raises and the key is discarded
R_Launch(t) ==
    /\ th[t].pc = "r_launch"
    /\ \/ /\ Len(procs) < MaxLaunch
          /\ procs' = Append(procs, [d |-> th[t].d, genes |-> th[t].missing,
                                     key |-> JobKey(th[t].d, th[t].missing),
                                     pc |-> "running"])
          /\ jobs' = jobs
       \/ /\ jobs' = jobs \ {JobKey(th[t].d, th[t].missing)}
          /\ procs' = procs
    /\ th' = [th EXCEPT ![t] = Return(t)]
    /\ UNCHANGED <<flags, cache, index>>

\* update_gene_tab_plots, lines 455-481: nothing available -> flag and launch
\* once more and return; otherwise go on to plot what is available
U_After(t) ==
    /\ th[t].pc = "u_after"
    /\ IF th[t].available = {}
       THEN /\ set_refresh_flag(th[t].d, "running")
            /\ th' = [th EXCEPT ![t].pc = "r_check", ![t].ret = "idle"]
       ELSE /\ th' = [th EXCEPT ![t] = ThreadIdle]
            /\ UNCHANGED flags
    /\ UNCHANGED <<jobs, cache, index, procs>>

\* auto_refresh_gene_data, lines 553-555: only a ready flag lets it go on
A_Poll(t) ==
    /\ th[t].pc = "a_poll"
    /\ th' = [th EXCEPT ![t] = IF get_refresh_flag(th[t].d) # "ready"
                                THEN ThreadIdle
                                ELSE [th[t] EXCEPT !.pc = "a_clear"]]
    /\ UNCHANGED <<flags, jobs, cache, index, procs>>

A_CheckClear(t) == th[t].pc = "a_clear" /\ CheckClear(t, "a_read")
A_CheckRead(t) == th[t].pc = "a_read" /\ CheckRead(t, "a_load")
\* requested_genes is rebuilt from the dropdown and the text box
A_CheckLoad(t) ==
    /\ th[t].pc = "a_load"
    /\ \E g \in (SUBSET JobGenes) \ {{}} : CheckLoad(t, g, "a_refresh", "a_refresh")

\* auto_refresh_gene_data, lines 571-595, the try block: the loaders and the
\* plot functions return what was asked for ("ok"); or a loader met an error
\* it catches and returned an empty table, which the plot functions turn
\* into placeholders without raising ("empty"); or a call raised ("raised")
A_Load(t) ==
    /\ th[t].pc = "a_refresh"
    /\ \E r \in {"ok", "empty", "raised"} :
          th' = [th EXCEPT ![t].pc = "a_finish", ![t].loaded = r]
    /\ UNCHANGED <<flags, jobs, cache, index, procs>>

\* auto_refresh_gene_data, lines 597-604: the except branch returns and
\* leaves the flag; otherwise set_refresh_flag(dataset_prefix, "idle")
A_Refresh(t) ==
    /\ th[t].pc = "a_finish"
    /\ IF th[t].loaded = "raised"
       THEN UNCHANGED flags
       ELSE set_refresh_flag(th[t].d, "idle")
    /\ th' = [th EXCEPT ![t] = ThreadIdle]
    /\ UNCHANGED <<jobs, cache, index, procs>>

\* utils/precompute_exp_run.R run with EXTRACT_PREFIX and EXTRACT_GENES: the
\* extracted genes are added to the dataset's gene index
precompute_exp_run(d, genes_to_extract) ==
    [index EXCEPT ![d] = @ \cup genes_to_extract]

\* monitor_process, lines 254-261: the R process of procs[i] ends and
\* proc.wait() returns, with code 0 after the script has done its work, or
\* with another code
P_Exit(i) ==
    /\ procs[i].pc = "running"
    /\ \/ /\ index' = precompute_exp_run(procs[i].d, procs[i].genes)
          /\ procs' = [procs EXCEPT ![i].pc = "m_clear"]
       \/ /\ procs' = [procs EXCEPT ![i].pc = "m_discard"]
          /\ UNCHANGED index
    /\ UNCHANGED <<flags, jobs, cache, th>>

\* monitor_process, lines 264-266: del GENE_LIST_CACHE[dataset_prefix]
M_ClearCache(i) ==
    /\ procs[i].pc = "m_clear"
    /\ cache' = [cache EXCEPT ![procs[i].d] = NoCache]
    /\ procs' = [procs EXCEPT ![i].pc = "m_ready"]
    /\ UNCHANGED <<flags, jobs, index, th>>

\* monitor_process, line 268: set_refresh_flag(dataset_prefix, "ready")
M_SetReady(i) ==
    /\ procs[i].pc = "m_ready"
    /\ set_refresh_flag(procs[i].d, "ready")
    /\ procs' = [procs EXCEPT ![i].pc = "m_discard"]
    /\ UNCHANGED <<jobs, cache, index, th>>

Finished == [d |-> "", genes |-> {}, key |-> <<>>, pc |-> "finished"]

M_DiscardKeepsKey(i) ==
    /\ procs[i].pc = "m_discard"
    /\ procs' = [procs EXCEPT ![i] = Finished]
    /\ UNCHANGED <<flags, jobs, cache, index, th>>

\* monitor_process, lines 273-275: finally JOBS_IN_PROGRESS.discard(job_key)
M_Discard(i) ==
    /\ procs[i].pc = "m_discard"
    /\ jobs' = jobs \ {procs[i].key}
    /\ procs' = [procs EXCEPT ![i] = Finished]
    /\ UNCHANGED <<flags, cache, index, th>>

ThreadStep(t) ==
    \/ U_Begin(t)
    \/ A_Begin(t)
    \/ U_CheckClear(t)
    \/ U_CheckRead(t)
    \/ U_CheckLoad(t)
    \/ U_SetRunning(t)
    \/ R_Check(t)
    \/ R_Add(t)
    \/ R_Launch(t)
    \/ U_After(t)
    \/ A_Poll(t)
    \/ A_CheckClear(t)
    \/ A_CheckRead(t)
    \/ A_CheckLoad(t)
    \/ A_Load(t)
    \/ A_Refresh(t)

MonitorStep(i) ==
    \/ P_Exit(i)
    \/ M_ClearCache(i)
    \/ M_SetReady(i)
    \/ M_Discard(i)

NextJobs ==
    \/ \E t \in Threads : ThreadStep(t) /\ UNCHANGED <<planVars, mergeVars, callVars>>
    \/ \E i \in DOMAIN procs : MonitorStep(i) /\ UNCHANGED <<planVars, mergeVars, callVars>>

JobsStart == InitJobs /\ PlanIdle /\ MergeIdle /\ CallIdle

SpecJobs == JobsStart /\ [][NextJobs]_vars

\* C8: at most one background R process (launched and not yet ended) is in
\* flight for a key, under every interleaving of the calls of
\* run_precompute_r_async.
C8_SingleFlightJobs ==
    \A i, j \in DOMAIN procs :
        (i # j /\ procs[i].pc = "running" /\ procs[j].pc = "running")
            => procs[i].key # procs[j].key

AllowedFlagStep(a, b) ==
    \/ a = b
    \/ a = "idle" /\ b = "running"
    \/ a = "running" /\ b = "ready"
    \/ a = "ready" /\ b = "idle"

\* C9: the refresh status of a dataset only ever changes idle to running,
\* running to ready, and ready to idle.
C9_StatusMachine ==
    [][\A d \in Datasets : AllowedFlagStep(flags[d], flags'[d])]_vars

(***************************************************************************)
(* SpecRows: the final SQL of the loaders executed over bounded tables.    *)
(*   SELECT ... FROM core LEFT JOIN t0 ON core.key = t0.key ... WHERE ...  *)
(* A key value stands for Barcode (GEX) or for the tuple Subject,          *)
(* CellType_Level3, Status (Pert).  A core row is its key and whether it   *)
(* passes the WHERE clause; a joined fragment is, per key value, the       *)
(* number of its rows with that key.                                       *)
(***************************************************************************)
Keys == 1..NumKeys
CoreRowIds == 1..NumCoreRows
Domains == {"gex", "pert"}
\* the color map read beside the data, or the initial [] when reading it failed
ColorMaps == {"colors", "unset"}

\* the rows the final SQL returns: one per passing core row and per choice
\* of a matching row in every joined fragment (0 = no match, columns null)
LeftJoinRows(core, exts) ==
    {r \in [core : CoreRowIds, m : [DOMAIN exts -> 0..MaxDup]] :
        /\ core[r.core].pass
        /\ \A j \in DOMAIN exts :
              IF exts[j][core[r.core].key] = 0 THEN r.m[j] = 0
              ELSE r.m[j] \in 1..exts[j][core[r.core].key]}

\* the rows of the core alone, as they stand before any join
CoreOnlyRows(core) ==
    {r \in [core : CoreRowIds, m : {<<>>}] : core[r.core].pass}

PartialTable(color_map, failed_at) ==
    [status |-> failed_at, rows |-> CoreOnlyRows(input.core), color_map |-> color_map]

\* return pd.DataFrame(), color_map
EmptyTable(color_map, failed_at) ==
    [status |-> failed_at, rows |-> {}, color_map |-> color_map]

InitRows ==
    /\ input \in [domain : Domains,
                  core_readable : BOOLEAN,
                  core_keyed : BOOLEAN,
                  core : [CoreRowIds -> [key : Keys, pass : BOOLEAN]],
                  exts : UNION {[1..n -> [Keys -> 0..MaxDup]] : n \in 0..NumJoined},
                  color_map : ColorMaps]
    /\ output = <<>>

\* what both loaders do from the core schema read to the return
ExecuteQuery(keys_required) ==
    IF ~input.core_readable
    THEN output' = EmptyTable(input.color_map, "schema")
    ELSE IF keys_required /\ ~input.core_keyed
    THEN output' = EmptyTable(input.color_map, "keys")
    ELSE \/ /\ input.core_keyed \/ input.exts = <<>>
            /\ output' = [status |-> "ok",
                          rows |-> LeftJoinRows(input.core, input.exts),
                          color_map |-> input.color_map]
         \/ output' = EmptyTable(input.color_map, "execute")

\* load_filtered_gex_data, lines 98-217
ExecGexQuery ==
    /\ output = <<>>
    /\ input.domain = "gex"
    /\ ExecuteQuery(FALSE)
    /\ UNCHANGED input

\* load_filtered_pert_data, lines 114-251: the core must hold KEY_COLS
ExecPertQuery ==
    /\ output = <<>>
    /\ input.domain = "pert"
    /\ ExecuteQuery(TRUE)
    /\ UNCHANGED input

NextRows ==
    \/ (ExecGexQuery /\ UNCHANGED <<planVars, mergeVars, jobVars>>)
    \/ (ExecPertQuery /\ UNCHANGED <<planVars, mergeVars, jobVars>>)

RowsStart == InitRows /\ PlanIdle /\ MergeIdle /\ JobsIdle

SpecRows == RowsStart /\ [][NextRows]_vars

\* the result rows that stem from core row i
RowsOf(i) == {r \in output.rows : r.core = i}

\* C13: a successful query returns exactly one row for each core row that
\* passes the row filters and none for the others; a core row without a match
\* in a joined fragment is present with that fragment's columns null; the
\* joins neither remove nor duplicate a core row.
C13_ResultRows ==
    (output # <<>> /\ output.status = "ok") =>
        \A i \in CoreRowIds :
            /\ input.core[i].pass => Cardinality(RowsOf(i)) = 1
            /\ ~input.core[i].pass => RowsOf(i) = {}
            /\ \A r \in RowsOf(i), j \in DOMAIN input.exts :
                  input.exts[j][input.core[i].key] = 0 => r.m[j] = 0

\* C20: when the core schema cannot be read, when the Pert core lacks a key
\* column, or when the final query fails to execute, the loader returns no
\* rows at all, together with the color map it read before.
C20_FailureIsEmpty ==
    (output # <<>> /\ output.status \in {"schema", "keys", "execute"}) =>
        /\ output.rows = {}
        /\ output.color_map = input.color_map

\* a failed execution over a core with a passing row and a joined fragment
C20_Witness ==
    /\ output # <<>>
    /\ output.status = "execute"
    /\ input.exts # <<>>
    /\ \E i \in CoreRowIds : input.core[i].pass
    /\ input.color_map = "colors"

\* the columns some joinable fragment of the layout supplies
GexSupplied ==
    layout.gex_core \cup
        UNION {layout.gex_exts[j] : j \in {k \in DOMAIN layout.gex_exts :
                                              GexValid(layout.gex_exts[k])}}
PertSupplied ==
    layout.pert_core \cup
        UNION {layout.pert_exts[j] : j \in {k \in DOMAIN layout.pert_exts :
                                               PertValid(layout.pert_exts[k])}}

SelectedCols(plan) == {x[2] : x \in plan.final_select_list}

\* C14: a query that names genes no fragment supplies is still planned and
\* executed: its select list holds every requested gene that a fragment
\* supplies and every always-included key/metadata column the fragments hold,
\* the unsupplied genes are left out and reported in the warning set.  (For
\* Pert the core must hold the key columns, the failure of C20 otherwise.)
C14_UnresolvedNotFatal ==
    /\ (gex_plan.status # "none" /\ genes # {}) =>
          /\ gex_plan.status = "ok"
          /\ SelectedCols(gex_plan) = (GexRequiredCols \cup genes) \cap GexSupplied
          /\ gex_plan.missing_cols = genes \ GexSupplied
    /\ (pert_plan.status # "none" /\ genes # {} /\ KEY_COLS \subseteq layout.pert_core) =>
          /\ pert_plan.status = "ok"
          /\ SelectedCols(pert_plan) = (PertRequiredCols \cup genes) \cap PertSupplied
          /\ PertRequiredCols \subseteq SelectedCols(pert_plan)
          /\ pert_plan.missing_cols = genes \ PertSupplied

\* both loaders ran a query for two genes, one supplied by an extension
\* fragment only and one by no fragment
C14_Witness ==
    /\ gex_plan.status = "ok" /\ pert_plan.status = "ok"
    /\ gex_plan.missing_cols # {} /\ pert_plan.missing_cols # {}
    /\ \E x \in gex_plan.final_select_list : x[2] \in genes /\ x[1] # CoreAlias
    /\ \E x \in pert_plan.final_select_list : x[2] \in genes /\ x[1] # CoreAlias
    /\ GexRequiredCols \subseteq SelectedCols(gex_plan)

(***************************************************************************)
(* SpecResolve: where each loader that takes force_s3 reads its data from, *)
(* for every set of files present on the local disk.                       *)
(***************************************************************************)
StatsLoaders == {"stats_cluster_status", "stats_cluster_sample", "stats_subject_status"}
FlagLoaders == {"umap", "colors"}
QueryLoaders == {"gex", "pert"}
Loaders == StatsLoaders \cup FlagLoaders \cup QueryLoaders

\* the local copy of a loader's data under DataWarehouse/
LocalCopy ==
    [l \in Loaders |->
        CASE l = "umap" -> "UMAP/tcell_umap_data.parquet"
          [] l = "colors" -> "Color/tcell_colors.json"
          [] l = "stats_cluster_status" -> "Stat/tcell_stats_cluster_status.parquet"
          [] l = "stats_cluster_sample" -> "Stat/tcell_stats_cluster_sample.parquet"
          [] l = "stats_subject_status" -> "Stat/tcell_stats_subject_status.parquet"
          [] l = "gex" -> "GEX/tcell_gex_core.parquet"
          [] l = "pert" -> "Pert/tcell_pert_core.parquet"]

\* run_pert_data_loader.py line 54: local_core_path
PertLocalCorePath == "Pert/tcell_gex_core.parquet"

LocalPaths == {LocalCopy[l] : l \in Loaders} \cup {PertLocalCorePath}

InitResolve ==
    /\ input \in [loader : Loaders, force_s3 : BOOLEAN, local : SUBSET LocalPaths]
    /\ output = <<>>

FromLocal(path) == [source |-> "local", path |-> path]
FromS3(l) == [source |-> "s3", path |-> LocalCopy[l]]

\* load_local_or_s3_parquet(local_path, bucket, key)
load_local_or_s3_parquet(l, local_path) ==
    IF local_path \in input.local THEN FromLocal(local_path) ELSE FromS3(l)

\* load_s3_stats_cluster_status / _cluster_sample / _subject_status
LoadStats ==
    /\ output = <<>>
    /\ input.loader \in StatsLoaders
    /\ output' = load_local_or_s3_parquet(input.loader, LocalCopy[input.loader])
    /\ UNCHANGED input

\* load_s3_umap, load_s3_colors
LoadFlagged ==
    /\ output = <<>>
    /\ input.loader \in FlagLoaders
    /\ output' = IF ~input.force_s3 /\ LocalCopy[input.loader] \in input.local
                 THEN FromLocal(LocalCopy[input.loader])
                 ELSE FromS3(input.loader)
    /\ UNCHANGED input

\* load_filtered_gex_data, lines 36-72
ResolveGex ==
    /\ output = <<>>
    /\ input.loader = "gex"
    /\ output' = IF ~input.force_s3 /\ LocalCopy["gex"] \in input.local
                 THEN FromLocal(LocalCopy["gex"])
                 ELSE FromS3("gex")
    /\ UNCHANGED input

\* load_filtered_pert_data, lines 52-88
ResolvePert ==
    /\ output = <<>>
    /\ input.loader = "pert"
    /\ output' = IF ~input.force_s3 /\ PertLocalCorePath \in input.local
                 THEN FromLocal(PertLocalCorePath)
                 ELSE FromS3("pert")
    /\ UNCHANGED input

NextResolve ==
    \/ (LoadStats /\ UNCHANGED <<planVars, mergeVars, jobVars>>)
    \/ (LoadFlagged /\ UNCHANGED <<planVars, mergeVars, jobVars>>)
    \/ (ResolveGex /\ UNCHANGED <<planVars, mergeVars, jobVars>>)
    \/ (ResolvePert /\ UNCHANGED <<planVars, mergeVars, jobVars>>)

ResolveStart == InitResolve /\ PlanIdle /\ MergeIdle /\ JobsIdle

SpecResolve == ResolveStart /\ [][NextResolve]_vars

\* C15: with force_s3 set a loader reads the object store even if its local
\* copy exists; with force_s3 not set it reads its local copy when that file
\* exists, and the object store otherwise.
C15_StorageResolution ==
    output # <<>> =>
        IF ~input.force_s3 /\ LocalCopy[input.loader] \in input.local
        THEN output = FromLocal(LocalCopy[input.loader])
        ELSE output.source = "s3"

(***************************************************************************)
(* SpecDiscover: which files each component takes as core and as           *)
(* extension fragments.  A name <<domain, tag, suffix>> stands for the     *)
(* file or key tcell_{domain}_{tag}{suffix} of the directory or S3 prefix  *)
(* the component looks into; the tag "*" is a literal asterisk.            *)
(***************************************************************************)
Tags == {"core", "a", "*"}
Suffixes == {".parquet", ".parquet.tmp"}
Names == Domains \X Tags \X Suffixes
CoreName(domain) == <<domain, "core", ".parquet">>

\* glob.glob("{prefix}_{domain}_*.parquet")
Glob(names, domain) ==
    {n \in names : n[1] = domain /\ n[3] = ".parquet"}

\* list_objects_v2(Prefix="{prefix}_{domain}_*.parquet") and the startswith
\* filter: the asterisk is compared as a character
ListObjects(names, domain) ==
    {n \in names : n[1] = domain /\ n[2] = "*"}

InitDiscover ==
    /\ input \in [component : {"gex", "pert", "merger"},
                  use_s3 : BOOLEAN,
                  names : SUBSET Names]
    /\ output = <<>>

\* load_filtered_gex_data, local branch (lines 47-55)
GexLocalDiscover ==
    /\ output = <<>>
    /\ input.component = "gex" /\ ~input.use_s3
    /\ CoreName("gex") \in input.names
    /\ output' = [core_path |-> CoreName("gex"),
                  ext_files |-> Glob(input.names, "gex") \ {CoreName("gex")}]
    /\ UNCHANGED input

\* load_filtered_gex_data, S3 branch (lines 71-86)
GexS3Discover ==
    /\ output = <<>>
    /\ input.component = "gex" /\ input.use_s3
    /\ output' = [core_path |-> CoreName("gex"),
                  ext_files |-> ListObjects(input.names, "gex") \ {CoreName("gex")}]
    /\ UNCHANGED input

\* load_filtered_pert_data, local branch (lines 54, 63-71): local_core_path
\* is {prefix}_gex_core.parquet of the Pert directory
PertLocalDiscover ==
    /\ output = <<>>
    /\ input.component = "pert" /\ ~input.use_s3
    /\ CoreName("gex") \in input.names
    /\ output' = [core_path |-> CoreName("gex"),
                  ext_files |-> Glob(input.names, "pert") \ {CoreName("gex")}]
    /\ UNCHANGED input

\* load_filtered_pert_data, S3 branch (lines 87-102)
PertS3Discover ==
    /\ output = <<>>
    /\ input.component = "pert" /\ input.use_s3
    /\ output' = [core_path |-> CoreName("pert"),
                  ext_files |-> ListObjects(input.names, "pert") \ {CoreName("pert")}]
    /\ UNCHANGED input

\* merge_pert_files_duckdb, lines 33-44
MergerDiscover ==
    /\ output = <<>>
    /\ input.component = "merger" /\ ~input.use_s3
    /\ CoreName("pert") \in input.names
    /\ output' = [core_path |-> CoreName("pert"),
                  ext_files |-> Glob(input.names, "pert") \ {CoreName("pert")}]
    /\ UNCHANGED input

NextDiscover ==
    \/ (GexLocalDiscover /\ UNCHANGED <<planVars, mergeVars, jobVars>>)
    \/ (GexS3Discover /\ UNCHANGED <<planVars, mergeVars, jobVars>>)
    \/ (PertLocalDiscover /\ UNCHANGED <<planVars, mergeVars, jobVars>>)
    \/ (PertS3Discover /\ UNCHANGED <<planVars, mergeVars, jobVars>>)
    \/ (MergerDiscover /\ UNCHANGED <<planVars, mergeVars, jobVars>>)

DiscoverStart == InitDiscover /\ PlanIdle /\ MergeIdle /\ JobsIdle

SpecDiscover == DiscoverStart /\ [][NextDiscover]_vars

\* the domain a component serves
DomainOf(component) == IF component = "gex" THEN "gex" ELSE "pert"

\* the names that match {prefix}_{domain}_*.parquet other than the core
ConventionExts(names, domain) ==
    {n \in names : n[1] = domain /\ n[3] = ".parquet" /\ n[2] # "core"}

\* C16: on the local disk both loaders and the compactor take
\* {prefix}_{domain}_core.parquet as the core, and as extension fragments
\* exactly the files matching {prefix}_{domain}_*.parquet other than the
\* core; the core is never in the extension list.
C16_LocalDiscovery ==
    (output # <<>> /\ ~input.use_s3) =>
        LET domain == DomainOf(input.component) IN
        /\ output.core_path = CoreName(domain)
        /\ output.ext_files = ConventionExts(input.names, domain)
        /\ CoreName(domain) \notin output.ext_files

\* C17: over the same names held in the object store, the S3 branch of a
\* loader returns as extension fragments every key matching
\* {prefix}_{domain}_*.parquet other than the core key.
C17_RemoteDiscovery ==
    (output # <<>> /\ input.use_s3) =>
        output.ext_files = ConventionExts(input.names, DomainOf(input.component))

\* C18: when the monitor of a successful background job sets the dataset's
\* status to ready, the gene-list cache holds no entry for the dataset that
\* was read before the job's process ended.
C18_ReadyAfterInvalidation ==
    [][\A i \in DOMAIN procs :
          (procs[i].pc = "m_ready" /\ procs'[i].pc = "m_discard") =>
              (cache'[procs[i].d].present => i \in cache'[procs[i].d].seen)]_vars

(***************************************************************************)
(* A Pert query started on directory f while the bucket holds the files    *)
(* bucket.  The compactor works on the local directory only (DATA_PATH).   *)
(***************************************************************************)
\* load_filtered_pert_data, lines 92-97: the keys the S3 listing keeps
S3ListPert(bucket) ==
    {n \in FileNames : Exists(bucket, n) /\ n[2] = "pert" /\ n[3] = "*"}

\* load_filtered_pert_data(prefix, genes=gene_list, force_s3=False)
PertQueryPlan(f, bucket, gene_list) ==
    IF Exists(f, LocalCorePath)
    THEN LET ext_files == PertLocalExtFiles(f)
         IN  PertPlan(f[LocalCorePath].cols,
                      [k \in DOMAIN ext_files |-> f[ext_files[k]].cols], gene_list)
    ELSE IF Exists(bucket, CorePath)
    THEN LET ext_files == SetToSeq(S3ListPert(bucket) \ {CorePath})
         IN  PertPlan(bucket[CorePath].cols,
                      [k \in DOMAIN ext_files |-> bucket[ext_files[k]].cols], gene_list)
    ELSE FailedPlan

\* the columns the core gained by the replace of the run of compactor p
MergedCols(p) == fs[CorePath].cols \ mp[p].start_fs[CorePath].cols

\* C19: a Pert query that starts once the compactor's os.replace has
\* completed selects every column that compaction merged into the core,
\* whether or not the merged fragments have been deleted yet.  (The bucket
\* holds the dataset as it was when the run started.)
C19_ReaderSeesMerged ==
    mp["c1"].replaced =>
        \A g \in MergedCols("c1") :
            g \in SelectedCols(PertQueryPlan(fs, mp["c1"].start_fs, {g}))

\* the columns a Pert query with gene list G joins from extension fragments
PertJoined(G) ==
    {c \in PertSupplied \ (layout.pert_core \cup KEY_COLS) : G = {} \/ c \in G}

\* the planners leave a fragment whose DESCRIBE raised out of the plan and
\* plan over the core and the other fragments
CorruptNeverPlanned ==
    /\ gex_plan.status # "none" =>
          /\ gex_plan.status = "ok"
          /\ DOMAIN gex_plan.col_to_table_map = GexSupplied
          /\ \A k \in DOMAIN gex_plan.join_clauses :
                layout.gex_exts[AliasPos(gex_plan.join_clauses[k])] # DescribeError
    /\ (pert_plan.status # "none" /\ KEY_COLS \subseteq layout.pert_core) =>
          /\ pert_plan.status = "ok"
          /\ DOMAIN pert_plan.col_to_table_map = layout.pert_core \cup PertJoined(genes)
          /\ \A k \in DOMAIN pert_plan.join_clauses :
                layout.pert_exts[AliasPos(pert_plan.join_clauses[k])] # DescribeError

\* the loop over ext_files has ended and the run went on
PastLoop(p) ==
    \/ mp[p].pc \in {"cleanup", "copy", "copying", "replace", "remove"}
    \/ mp[p].pc = "done" /\ mp[p].outcome \in {"no_new_columns", "cleaned", "merged"}

\* the compactor records nothing for a fragment whose DESCRIBE raised, never
\* removes or changes it, and goes through the other fragments
CorruptNeverMerged(p) ==
    /\ \A f \in mp[p].bad :
          /\ f \notin Range(mp[p].files_merged_successfully)
          /\ f \notin Range(mp[p].join_clauses_sql)
          /\ f \notin mp[p].removed
          /\ fs[f] = mp[p].start_fs[f]
    /\ PastLoop(p) =>
          Range(mp[p].files_merged_successfully) =
              {f \in Range(mp[p].ext_files) :
                  f \notin mp[p].bad /\ PertValid(mp[p].start_fs[f].cols)}
    /\ (mp[p].pc = "done" /\ mp[p].outcome = "merged") =>
          \A f \in Range(mp[p].ext_files) :
              (f \notin mp[p].bad /\ PertValid(mp[p].start_fs[f].cols)) =>
                  mp[p].start_fs[f].cols \subseteq fs[CorePath].cols

\* a DESCRIBE error inside the loop moves the run on to the next fragment
CorruptStepGoesOn(p) ==
    (mp # <<>> /\ mp' # <<>> /\ mp'[p].bad # mp[p].bad) =>
        /\ mp'[p].pc = "inspect"
        /\ mp'[p].i = mp[p].i + 1
        /\ fs' = fs

\* C21: an extension fragment whose schema read raises is left out of the
\* query plan, and the plan is made over the core and the other fragments;
\* the compactor leaves it out of the merge, does not delete it, and goes on
\* to merge the other fragments.
C21_CorruptFragmentSkipped ==
    /\ []((layout # <<>> => CorruptNeverPlanned) /\ (mp # <<>> => CorruptNeverMerged("c1")))
    /\ [][CorruptStepGoesOn("c1")]_vars

\* C21 witness: the schema read of one fragment raised, another fragment was
\* merged into the core and removed, and the first fragment is still there.
C21_Witness ==
    /\ mp # <<>>
    /\ mp["c1"].pc = "done"
    /\ mp["c1"].outcome = "merged"
    /\ mp["c1"].removed # {}
    /\ \E f \in mp["c1"].bad : Exists(fs, f)

\* the directory the run of compactor p started on has no core, or no
\* extension file
NothingToCompact(p) ==
    \/ ~Exists(mp[p].start_fs, CorePath)
    \/ \A t \in ExtTags : ~Exists(mp[p].start_fs, ExtPath(t))

DeletionFailedBefore(p) ==
    /\ mp[p].run > 1
    /\ mp[p].prev.outcome = "merged"
    /\ mp[p].prev.rm_failed # {}

ClusterNames == <<"CD4 T", "CD8 T", "Treg">>
SubjectNames == <<"S1", "S2", "S3">>
Clusters == {ClusterNames[i] : i \in 1..NumClusters}
Subjects == {SubjectNames[i] : i \in 1..NumSubjects}
Null == "NULL"

MetaRows == [CellType_Level3 : Clusters, Subject : Subjects]
NullRow == [CellType_Level3 |-> Null, Subject |-> Null]

InitFilter ==
    /\ input \in [domain : Domains,
                  clusters : SUBSET Clusters,
                  subjects : SUBSET Subjects,
                  core : [CoreRowIds -> MetaRows],
                  t0 : [CoreRowIds -> MetaRows \cup {NullRow}]]
    /\ output = <<>>

WhereClausesOnExt(clusters, subjects) ==
    (IF clusters # {}
     THEN {[table |-> "t0", col |-> "CellType_Level3", values |-> clusters]} ELSE {})
    \cup
    (IF subjects # {}
     THEN {[table |-> "t0", col |-> "Subject", values |-> subjects]} ELSE {})

\* where_clauses after "1=1": core."CellType_Level3" IN (...) if clusters,
\* core."Subject" IN (...) if subjects
WhereClauses(clusters, subjects) ==
    (IF clusters # {}
     THEN {[table |-> "core", col |-> "CellType_Level3", values |-> clusters]} ELSE {})
    \cup
    (IF subjects # {}
     THEN {[table |-> "core", col |-> "Subject", values |-> subjects]} ELSE {})

\* table."col" IN (values) on the joined row of core row i
Holds(pred, i) == input[pred.table][i][pred.col] \in pred.values

\* the core rows the query returns under WHERE 1=1 AND the clauses
Filtered(where_clauses) ==
    {i \in CoreRowIds : \A pred \in where_clauses : Holds(pred, i)}

ExecuteFilter ==
    LET where_clauses == WhereClauses(input.clusters, input.subjects)
    IN  output' = [where_clauses |-> where_clauses, rows |-> Filtered(where_clauses)]

\* load_filtered_gex_data, lines 184-210
FilterGex ==
    /\ output = <<>>
    /\ input.domain = "gex"
    /\ ExecuteFilter
    /\ UNCHANGED input

\* load_filtered_pert_data, lines 218-244
FilterPert ==
    /\ output = <<>>
    /\ input.domain = "pert"
    /\ ExecuteFilter
    /\ UNCHANGED input

NextFilter ==
    \/ (FilterGex /\ UNCHANGED <<planVars, mergeVars, jobVars>>)
    \/ (FilterPert /\ UNCHANGED <<planVars, mergeVars, jobVars>>)

FilterStart == InitFilter /\ PlanIdle /\ MergeIdle /\ JobsIdle

SpecFilter == FilterStart /\ [][NextFilter]_vars

\* core row i passes the filters given
PassesFilters(i) ==
    /\ input.clusters # {} => input.core[i].CellType_Level3 \in input.clusters
    /\ input.subjects # {} => input.core[i].Subject \in input.subjects

\* C24: the rows returned are the core rows whose CellType_Level3 is in the
\* cluster set and whose Subject is in the subject set, whatever the joined
\* extension row holds; every predicate is on the core table; with no filter
\* given every core row is returned.
C24_FiltersOnCore ==
    output # <<>> =>
        /\ output.rows = {i \in CoreRowIds : PassesFilters(i)}
        /\ \A pred \in output.where_clauses : pred.table = "core"
        /\ (input.clusters = {} /\ input.subjects = {}) => output.rows = CoreRowIds

\* C24 witness: both filters are given, a core row passes them although its
\* joined extension row has no match or other values.
C24_Witness ==
    /\ output # <<>>
    /\ input.clusters # {} /\ input.subjects # {}
    /\ \E i \in output.rows :
          /\ input.t0[i].CellType_Level3 \notin input.clusters
          /\ input.t0[i].Subject \notin input.subjects

(***************************************************************************)
(* SpecCheck: one call of check_genes_availability on one thread, over     *)
(* every content of the local index file, of the S3 object and of the      *)
(* cache, with S3_BUCKET_URI set or not.                                   *)
(***************************************************************************)
IndexGenes == {GeneNames[i] : i \in 1..NumIndexGenes}
\* what a caller may name in its request: genes, and any other string
RequestNames == IndexGenes \cup {"clusters"}
Requests == UNION {[1..n -> RequestNames] : n \in 0..MaxReq}

\* a gene list that is absent, or present with its genes
GeneLists == {[present |-> FALSE, data |-> {}]}
                 \cup {[present |-> TRUE, data |-> g] : g \in SUBSET IndexGenes}

InitCheck ==
    /\ input \in [genes : Requests,
                  force_s3 : BOOLEAN,
                  bucket_set : BOOLEAN,
                  local : GeneLists,
                  s3 : GeneLists,
                  cache : GeneLists]
    /\ output = <<>>

\* set(available_list) when get_gene_list returns
\* {"clusters": [], "subjects": []}
NoBucketResult == {"clusters", "subjects"}

\* get_gene_list(dataset_prefix, bucket_name, force_s3) called with the cache
\* entry cache_entry: the list it returns
get_gene_list(cache_entry) ==
    IF cache_entry.present /\ ~input.force_s3 THEN cache_entry.data
    ELSE IF ~input.bucket_set THEN NoBucketResult
    ELSE IF ~input.force_s3 /\ input.local.present THEN input.local.data
    ELSE IF input.s3.present THEN input.s3.data
    ELSE {}

\* lines 128-130: the two list comprehensions over genes
Partition(requested, available_genes) ==
    [found |-> SelectSeq(requested, LAMBDA g : g \in available_genes),
     missing |-> SelectSeq(requested, LAMBDA g : g \notin available_genes)]

\* check_genes_availability(dataset_prefix, genes, bucket_name, force_s3):
\* the cache entry is deleted, the list is loaded, the request is split
CheckGenesAvailability ==
    /\ output = <<>>
    /\ LET available_genes == get_gene_list([present |-> FALSE, data |-> {}])
       IN  output' = IF available_genes = {}
                     THEN [found |-> <<>>, missing |-> input.genes]
                     ELSE Partition(input.genes, available_genes)
    /\ UNCHANGED input

NextCheck == CheckGenesAvailability /\ UNCHANGED <<planVars, mergeVars, jobVars>>

CheckStart == InitCheck /\ PlanIdle /\ MergeIdle /\ JobsIdle

SpecCheck == CheckStart /\ [][NextCheck]_vars

\* the gene index as it can be read when the call is made: the local file
\* when it exists and force_s3 is not set, the S3 object otherwise, nothing
\* when neither can be read
IndexAtCall ==
    IF ~input.force_s3 /\ input.local.present THEN input.local.data
    ELSE IF input.bucket_set /\ input.s3.present THEN input.s3.data
    ELSE {}

\* C25: found and missing are disjoint and are the requested genes split in
\* request order; found holds only genes of the index as it can be read at
\* the call, whatever the cache held before; with an empty or unavailable
\* index every requested gene is missing.
C25_Partition ==
    output # <<>> =>
        /\ Range(output.found) \cap Range(output.missing) = {}
        /\ output.found = SelectSeq(input.genes, LAMBDA g : g \in Range(output.found))
        /\ output.missing = SelectSeq(input.genes, LAMBDA g : g \in Range(output.missing))
        /\ Range(output.found) \cup Range(output.missing) = Range(input.genes)
        /\ Range(output.found) \subseteq IndexAtCall
        /\ IndexAtCall = {} => (output.found = <<>> /\ output.missing = input.genes)

\* what a step of thread t in auto_refresh_gene_data may do to the state
PollStep(t) ==
    /\ (th[t].pc = "a_poll" /\ th'[t] # th[t] /\ flags[th[t].d] # "ready") =>
          /\ th'[t] = ThreadIdle
          /\ UNCHANGED <<flags, jobs, cache, index, procs>>
    /\ (th[t].pc = "a_refresh" /\ th'[t] # th[t]) => flags[th[t].d] = flags'[th[t].d]
    /\ (th[t].pc = "a_finish" /\ th'[t] # th[t]) =>
          IF th[t].loaded = "ok"
          THEN flags'[th[t].d] = "idle"
          ELSE flags'[th[t].d] = flags[th[t].d]

\* C26: a polling refresh that finds the status not ready loads nothing and
\* changes nothing; a refresh that succeeds sets the status to idle; a
\* refresh that fails leaves the status as it is.
C26_PollingProtocol == [][\A t \in Threads : PollStep(t)]_vars

\* the run of compactor p returned without an error
RunSucceeded(p) ==
    /\ mp[p].pc = "done"
    /\ mp[p].outcome \in {"merged", "cleaned", "no_new_columns"}

\* the extension files of the run's start directory that hold every join key
KeyedExtFiles(p) ==
    {f \in MergerExtSet(mp[p].start_fs) : PertValid(mp[p].start_fs[f].cols)}

\* C27: after a successful run in which every schema could be read, the
\* core's column set is the pre-run core's column set united with the
\* columns, other than core columns and join keys, of every extension
\* fragment that has all join keys.
C27_SchemaResult ==
    (RunSucceeded("c1") /\ mp["c1"].bad = {}) =>
        fs[CorePath].cols =
            mp["c1"].start_fs[CorePath].cols \cup
                UNION {(mp["c1"].start_fs[f].cols \ mp["c1"].start_fs[CorePath].cols)
                           \ KEY_COLS : f \in KeyedExtFiles("c1")}

\* C29: the select list of the COPY (core.* followed by the new columns of
\* each merged fragment) names no column twice.
C29_NoDuplicateColumn ==
    mp["c1"].pc \in {"copy", "copying", "replace"} =>
        \A j, k \in DOMAIN FinalSelect("c1") :
            FinalSelect("c1")[j] = FinalSelect("c1")[k] => j = k

\* ---------------------------------------------------------------------
\* build_ordered_gene_list: the dropdown selection and the typed text
\* ---------------------------------------------------------------------

\* longest typed text and longest dropdown selection
MaxTyped == 3
MaxDropdown == 2

\* a text is a sequence of characters; a gene name is a text
LowerChars == {"g", "h"}
NameChars == LowerChars \cup {"G"}
Separators == {",", " "}

\* the typed texts and the dropdown selections of the calls
Texts == UNION {[1..n -> NameChars \cup Separators] : n \in 0..MaxTyped}
DropdownNames == {<<c>> : c \in NameChars}
Selections == UNION {[1..n -> DropdownNames] : n \in 0..MaxDropdown}

\* an argument is None or a value
NoneArg == [none |-> TRUE, v |-> <<>>]
Arg(x) == [none |-> FALSE, v |-> x]

\* bool(x) of an argument: None, "" and [] are false
Truthy(x) == ~x.none /\ x.v # <<>>

InitBuild ==
    /\ input \in [dropdown_genes : {NoneArg} \cup {Arg(l) : l \in Selections},
                  typed_genes : {NoneArg} \cup {Arg(t) : t \in Texts}]
    /\ output = <<>>

\* str.upper() of one character
UpperChar(c) ==
    CASE c = "g" -> "G"
      [] c = "h" -> "H"
      [] OTHER -> c

\* str.upper()
Upper(g) == [k \in DOMAIN g |-> UpperChar(g[k])]

\* str.replace(",", " ")
Replace(t) == [k \in DOMAIN t |-> IF t[k] = "," THEN " " ELSE t[k]]

\* str.split(): the maximal runs of characters other than whitespace, cur
\* being the run read so far and acc the runs before it
RECURSIVE SplitFrom(_, _, _, _)
SplitFrom(t, k, cur, acc) ==
    IF k > Len(t) THEN (IF cur = <<>> THEN acc ELSE Append(acc, cur))
    ELSE IF t[k] = " "
         THEN SplitFrom(t, k + 1, <<>>,
                        IF cur = <<>> THEN acc ELSE Append(acc, cur))
         ELSE SplitFrom(t, k + 1, Append(cur, t[k]), acc)

Split(t) == SplitFrom(t, 1, <<>>, <<>>)

\* str.strip(): the text without its leading and trailing whitespace
RECURSIVE Strip(_)
Strip(g) ==
    IF g = <<>> THEN g
    ELSE IF Head(g) = " " THEN Strip(Tail(g))
    ELSE IF g[Len(g)] = " " THEN Strip(SubSeq(g, 1, Len(g) - 1))
    ELSE g

\* lines 204-208: the loop over the typed words from word k on, appending
\* to genes every word that is not empty and not yet in genes
RECURSIVE AppendTyped(_, _, _)
AppendTyped(genes_list, words, k) ==
    IF k > Len(words) THEN genes_list
    ELSE LET g == Upper(Strip(words[k]))
         IN  AppendTyped(IF g # <<>> /\ g \notin Range(genes_list)
                         THEN Append(genes_list, g)
                         ELSE genes_list,
                         words, k + 1)

\* build_ordered_gene_list(dropdown_genes, typed_genes)
build_ordered_gene_list(dropdown_genes, typed_genes) ==
    LET genes_list == IF Truthy(dropdown_genes) THEN dropdown_genes.v ELSE <<>>
    IN  IF Truthy(typed_genes)
        THEN AppendTyped(genes_list, Split(Replace(typed_genes.v)), 1)
        ELSE genes_list

\* one call of the function
BuildOrderedGeneList ==
    /\ output = <<>>
    /\ output' = [genes |-> build_ordered_gene_list(input.dropdown_genes,
                                                    input.typed_genes)]
    /\ UNCHANGED input

NextBuild == BuildOrderedGeneList /\ UNCHANGED <<planVars, mergeVars, jobVars>>

BuildStart == InitBuild /\ PlanIdle /\ MergeIdle /\ JobsIdle

SpecBuild == BuildStart /\ [][NextBuild]_vars

\* a name is uppercase when upper() leaves it as it is
IsUpper(g) == Upper(g) = g

\* the typed names in typed order, each once, that are not dropdown names
RECURSIVE TypedTail(_, _, _)
TypedTail(words, k, seen) ==
    IF k > Len(words) THEN <<>>
    ELSE IF words[k] \in seen THEN TypedTail(words, k + 1, seen)
    ELSE <<words[k]>> \o TypedTail(words, k + 1, seen \cup {words[k]})

\* C28: the result holds uppercase names only, holds no name twice, begins
\* with the dropdown genes in their given order and goes on with the typed
\* genes in typed order.
C28_OrderedUniqueUpper ==
    output # <<>> =>
        LET res == output.genes
            dropdown == IF input.dropdown_genes.none THEN <<>>
                        ELSE input.dropdown_genes.v
            typed == IF input.typed_genes.none THEN <<>>
                     ELSE Split(Replace(input.typed_genes.v))
            upper_typed == [k \in DOMAIN typed |-> Upper(typed[k])]
        IN  /\ \A k \in DOMAIN res : IsUpper(res[k])
            /\ \A j, k \in DOMAIN res : res[j] = res[k] => j = k
            /\ Len(res) >= Len(dropdown)
            /\ SubSeq(res, 1, Len(dropdown)) = dropdown
            /\ SubSeq(res, Len(dropdown) + 1, Len(res)) =
                   TypedTail(upper_typed, 1, Range(dropdown))

\* ---------------------------------------------------------------------
\* merge_pert_files_duckdb: the rows the COPY writes
\* ---------------------------------------------------------------------

\* the values a pre-existing core column holds
CoreValues == {"x", "y"}

\* the core's rows and, for each merged fragment, the number of its rows
\* per key tuple (0: the key tuple is missing, 2: it is repeated)
InitCopy ==
    /\ input \in [core : [CoreRowIds -> [key : Keys, val : CoreValues]],
                  exts : UNION {[1..n -> [Keys -> 0..MaxDup]] : n \in 1..NumJoined}]
    /\ output = <<>>

\* the rows of the core file before the run
CoreFileRows == {[core |-> i, m |-> <<>>] : i \in CoreRowIds}

\* lines 124-131: SELECT core.*, new columns FROM core
\* LEFT JOIN ... with no WHERE clause: every core row passes
CopySelect ==
    LeftJoinRows([i \in CoreRowIds |-> [key |-> input.core[i].key, pass |-> TRUE]],
                 input.exts)

\* lines 119-133: the COPY writes the temporary file, or raises
CopyJoin ==
    /\ output = <<>>
    /\ \/ output' = [status |-> "copied", temp |-> CopySelect, core |-> CoreFileRows]
       \/ output' = [status |-> "failed", temp |-> {}, core |-> CoreFileRows]
    /\ UNCHANGED input

\* line 138: os.replace(temp_output_path, core_path), or it raises
ReplaceCore ==
    /\ output # <<>>
    /\ output.status = "copied"
    /\ \/ output' = [status |-> "merged", temp |-> {}, core |-> output.temp]
       \/ output' = [output EXCEPT !.status = "failed"]
    /\ UNCHANGED input

NextCopy ==
    \/ (CopyJoin /\ UNCHANGED <<planVars, mergeVars, jobVars>>)
    \/ (ReplaceCore /\ UNCHANGED <<planVars, mergeVars, jobVars>>)

CopyStart == InitCopy /\ PlanIdle /\ MergeIdle /\ JobsIdle

SpecCopy == CopyStart /\ [][NextCopy]_vars

\* C30: after a successful run the new core holds exactly one row for each
\* row of the pre-run core, whatever the merged fragments hold (repeated or
\* missing key tuples included); the values of the pre-existing columns are
\* those of core.*.
C30_CoreRowsPreserved ==
    (output # <<>> /\ output.status = "merged") =>
        \A i \in CoreRowIds : Cardinality({r \in output.core : r.core = i}) = 1

(***************************************************************************)
(* SpecRace: one load_filtered_pert_data call over the local directory     *)
(* while compactor c1 runs.  The query reads the schemas and builds its    *)
(* plan in one step and executes the final SQL in a later one.             *)
(***************************************************************************)
InitRace ==
    /\ InitMerge
    /\ input \in [genes : SUBSET FsGenes]
    /\ output = <<>>

\* the files the join clauses of a plan over ext_files name
JoinedFiles(plan, ext_files) ==
    {ext_files[AliasPos(a)] : a \in Range(plan.join_clauses)}

\* lines 52-216: the local core is found, the directory is globbed, each
\* schema is read and the final SQL is assembled
Q_Plan ==
    /\ output = <<>>
    /\ Exists(fs, LocalCorePath)
    /\ LET ext_files == PertLocalExtFiles(fs)
           plan == PertPlan(fs[LocalCorePath].cols,
                            [k \in DOMAIN ext_files |-> fs[ext_files[k]].cols],
                            input.genes)
       IN  output' = IF plan.status = "ok"
                     THEN [pc |-> "planned", plan |-> plan,
                           files |-> {LocalCorePath} \cup JoinedFiles(plan, ext_files),
                           cols |-> {}]
                     ELSE [pc |-> "empty", plan |-> plan, files |-> {}, cols |-> {}]
    /\ UNCHANGED <<input, fs, mp>>

\* lines 241-251: con.execute(final_sql) reads every file the SQL names;
\* an error is caught and pd.DataFrame() is returned
Q_Execute ==
    /\ output # <<>>
    /\ output.pc = "planned"
    /\ output' = IF \A n \in output.files : fs[n].state = "complete"
                 THEN [output EXCEPT !.pc = "ok",
                           !.cols = {c[2] : c \in output.plan.final_select_list}]
                 ELSE [output EXCEPT !.pc = "empty"]
    /\ UNCHANGED <<input, fs, mp>>

NextRace ==
    \/ (MergeStep("c1") /\ UNCHANGED <<planVars, jobVars, callVars>>)
    \/ (Q_Plan /\ UNCHANGED <<planVars, jobVars>>)
    \/ (Q_Execute /\ UNCHANGED <<planVars, jobVars>>)

RaceStart == InitRace /\ PlanIdle /\ JobsIdle

SpecRace == RaceStart /\ [][NextRace]_vars

\* C31: a query that built its plan, a join against a fragment included,
\* does not end in the empty failure result when the compactor replaces the
\* core and deletes the fragment before the plan is executed.
C31_QueryOutlivesCompaction ==
    (output # <<>> /\ output.plan.status = "ok" /\ mp["c1"].replaced)
        => output.pc # "empty"

(***************************************************************************)
(* Claims about the refresh status and the in-flight set (SpecJobs).       *)
(***************************************************************************)
\* a key of dataset d is in JOBS_IN_PROGRESS
InFlight(d) == \E k \in jobs : k[1] = d

\* a callback has set the status of d to running and has not yet returned
\* from the run_precompute_r_async calls that follow
Submitting(d) ==
    \E t \in Threads :
        th[t].d = d /\ th[t].pc \in {"r_check", "r_add", "r_launch", "u_after"}

\* C32: while the status of a dataset is running, a job of the dataset is in
\* the in-flight set (or the callback that set the status is still
\* submitting it); the status is not left at running once the job has
\* failed to launch, exited, or left the in-flight set.
C32_RunningHasJob ==
    \A d \in Datasets : flags[d] = "running" => InFlight(d) \/ Submitting(d)

\* C33: while the status of a dataset is ready or idle, no key of the
\* dataset is in the in-flight set.
C33_SettledHasNoJob ==
    \A d \in Datasets : flags[d] \in {"ready", "idle"} => ~InFlight(d)

(***************************************************************************)
(* SpecJobsFair: SpecJobs with a monitor thread that, once proc.wait() has *)
(* returned, is scheduled until it ends (it is a thread of its own and     *)
(* waits for nothing else).                                                *)
(***************************************************************************)
MonitorEnds(i) ==
    /\ i \in DOMAIN procs
    /\ (M_ClearCache(i) \/ M_SetReady(i) \/ M_Discard(i))
    /\ UNCHANGED <<planVars, mergeVars, callVars>>

SpecJobsFair == SpecJobs /\ \A i \in 1..MaxLaunch : WF_vars(MonitorEnds(i))

\* proc.wait() has returned for launch i and its monitor has not ended
Exited(i) ==
    i \in DOMAIN procs /\ procs[i].pc \in {"m_clear", "m_ready", "m_discard"}

\* the monitor of launch i has run its finally block
MonitorEnded(i) == i \in DOMAIN procs /\ procs[i].pc = "finished"

\* the step in which a monitor ends, or in which a launch fails, leaves the
\* key out of JOBS_IN_PROGRESS; a submission that finds its key absent goes
\* on to add it and launch
KeyLeavesOnEnd ==
    /\ \A i \in DOMAIN procs :
          (procs[i].pc = "m_discard" /\ procs'[i].pc = "finished")
              => procs[i].key \notin jobs'
    /\ \A t \in Threads :
          (th[t].pc = "r_launch" /\ th'[t].pc # "r_launch" /\ procs' = procs)
              => JobKey(th[t].d, th[t].missing) \notin jobs'
    /\ \A t \in Threads :
          (th[t].pc = "r_check" /\ th'[t].pc # "r_check"
                /\ JobKey(th[t].d, th[t].missing) \notin jobs)
              => th'[t].pc = "r_add"

\* C34: once the process of a key has exited (with any code) its monitor
\* ends, and the step that ends it removes the key from the in-flight set;
\* a failed launch removes the key too; a later submission of the key finds
\* it absent and launches a new process.
C34_KeyLeaves ==
    /\ [][KeyLeavesOnEnd]_vars
    /\ \A i \in 1..MaxLaunch : Exited(i) ~> MonitorEnded(i)

\* C34 witness: the first process has ended and its key was removed; the
\* key was submitted again and a second process runs under it.
C34_Witness ==
    /\ Len(procs) = 2
    /\ procs[1].pc = "finished"
    /\ procs[2].pc = "running"
    /\ procs[2].key \in jobs

(***************************************************************************)
(* SpecBucket: the two query loaders from their first line to the choice   *)
(* of local files or S3, for every value of S3_BUCKET_URI.                 *)
(***************************************************************************)
\* os.getenv("S3_BUCKET_URI"): None, or a text with its scheme and its
\* network location
UnsetUri == [none |-> TRUE, scheme |-> "", netloc |-> ""]
BucketUris ==
    {UnsetUri} \cup
    [none : {FALSE}, scheme : {"s3://", "https://", ""}, netloc : {"hsv-bucket", ""}]

InitBucket ==
    /\ input \in [loader : QueryLoaders,
                  force_s3 : BOOLEAN,
                  local_core : BOOLEAN,
                  local_colors : BOOLEAN,
                  bucket_uri : BucketUris]
    /\ output = <<>>

\* the call raised error
Raised(error) == [result |-> "raised", error |-> error, color_map |-> "none"]

\* return pd.DataFrame(), {}
EmptyResult == [result |-> "empty", error |-> "none", color_map |-> "{}"]

\* the call goes on to read the core schema of source
GoesOn(source, color_map) ==
    [result |-> source, error |-> "none", color_map |-> color_map]

\* bucket_uri.startswith("s3://")
StartsWithS3(bucket_uri) == bucket_uri.scheme = "s3://"

\* lines 28-92 of load_filtered_gex_data, lines 44-108 of
\* load_filtered_pert_data; actual_bucket is assigned only under the if
FindFiles ==
    LET bucket_uri == input.bucket_uri
        bound == StartsWithS3(bucket_uri)
        actual_bucket == bucket_uri.netloc
    IN  IF bucket_uri.none
        THEN output' = Raised("AttributeError")
        ELSE IF ~input.force_s3 /\ input.local_core
        THEN output' = GoesOn("local", IF input.local_colors THEN "colors" ELSE "[]")
        ELSE IF ~bound
        THEN output' = Raised("UnboundLocalError")
        ELSE IF actual_bucket = ""
        THEN output' = EmptyResult
        ELSE \/ output' = EmptyResult
             \/ \E color_map \in {"colors", "[]"} : output' = GoesOn("s3", color_map)

\* load_filtered_gex_data
BucketGex ==
    /\ output = <<>>
    /\ input.loader = "gex"
    /\ FindFiles
    /\ UNCHANGED input

\* load_filtered_pert_data
BucketPert ==
    /\ output = <<>>
    /\ input.loader = "pert"
    /\ FindFiles
    /\ UNCHANGED input

NextBucket ==
    \/ (BucketGex /\ UNCHANGED <<planVars, mergeVars, jobVars>>)
    \/ (BucketPert /\ UNCHANGED <<planVars, mergeVars, jobVars>>)

BucketStart == InitBucket /\ PlanIdle /\ MergeIdle /\ JobsIdle

SpecBucket == BucketStart /\ [][NextBucket]_vars

\* C35: when the local core file is absent or remote is forced, and
\* S3_BUCKET_URI is unset or does not name an s3:// bucket, the loaders
\* return an empty table and an empty color map and do not raise.
C35_MissingBucketIsEmpty ==
    (/\ output # <<>>
     /\ input.force_s3 \/ ~input.local_core
     /\ \/ input.bucket_uri.none
        \/ ~StartsWithS3(input.bucket_uri)
        \/ input.bucket_uri.netloc = "")
        => output = EmptyResult

(***************************************************************************)
(* SpecIsolate: SpecJobs started with one more dataset in the module's     *)
(* dictionaries.  No callback of the behaviour is about that dataset; its  *)
(* status, its cached gene list and its in-flight key are there from       *)
(* earlier requests, and its R process runs on throughout.                 *)
(***************************************************************************)
OtherDataset == DatasetNames[NumDatasets + 1]

InitIsolate ==
    /\ flags \in [Datasets \cup {OtherDataset} -> {"idle", "running", "ready"}]
    /\ \A d \in Datasets : flags[d] = "idle"
    /\ jobs = {JobKey(OtherDataset, JobGenes)}
    /\ cache = [d \in Datasets \cup {OtherDataset} |->
                   IF d = OtherDataset
                   THEN [present |-> TRUE, data |-> JobGenes, seen |-> {}]
                   ELSE NoCache]
    /\ index \in [Datasets \cup {OtherDataset} -> SUBSET JobGenes]
    /\ index[OtherDataset] = JobGenes
    /\ procs = <<>>
    /\ th = [t \in Threads |-> ThreadIdle]

IsolateStart == InitIsolate /\ PlanIdle /\ MergeIdle /\ CallIdle

SpecIsolate == IsolateStart /\ [][NextJobs]_vars

\* the keys of dataset d in a value of JOBS_IN_PROGRESS
KeysOf(in_progress, d) == {k \in in_progress : k[1] = d}

\* a step leaves the status, the cache entry and the in-flight keys of the
\* dataset it is not about as they are
OtherUntouched ==
    /\ flags'[OtherDataset] = flags[OtherDataset]
    /\ cache'[OtherDataset] = cache[OtherDataset]
    /\ KeysOf(jobs', OtherDataset) = KeysOf(jobs, OtherDataset)

\* C36: submitting a job, completing a job, setting a refresh flag or
\* invalidating the gene-list cache for one dataset leaves the refresh
\* status, the cache entry and the in-flight keys of every other dataset
\* unchanged.
C36_DatasetIsolation == [][OtherUntouched]_vars

\* C36 witness: a job of a dataset was submitted and completed, its cache
\* entry was invalidated and its status set to ready, and the other dataset
\* still has its status, its cache entry and its key.
C36_Witness ==
    /\ MonitorEnded(1)
    /\ \E d \in Datasets : flags[d] = "ready" /\ ~cache[d].present
    /\ flags[OtherDataset] = "running"
    /\ cache[OtherDataset].present
    /\ JobKey(OtherDataset, JobGenes) \in jobs

(***************************************************************************)
(* SpecGeneList: one call of get_gene_list for every content of the cache, *)
(* the local index file and the S3 object.                                 *)
(***************************************************************************)
InitGeneList ==
    /\ input \in [force_s3 : BOOLEAN,
                  bucket_set : BOOLEAN,
                  local : GeneLists,
                  s3 : GeneLists,
                  cache : GeneLists]
    /\ output = <<>>

\* the call returns before step 3: from the cache, or for want of a bucket
ReturnsEarly(cache_entry) ==
    (cache_entry.present /\ ~input.force_s3) \/ ~input.bucket_set

\* lines 103-105: if data: GENE_LIST_CACHE[dataset_prefix] = data
StoredEntry(cache_entry) ==
    LET data == get_gene_list(cache_entry)
    IN  IF ReturnsEarly(cache_entry) \/ data = {} THEN cache_entry
        ELSE [present |-> TRUE, data |-> data]

\* get_gene_list(dataset_prefix, bucket_name=None, force_s3)
GetGeneList ==
    /\ output = <<>>
    /\ output' = [ret |-> get_gene_list(input.cache),
                  cache |-> StoredEntry(input.cache)]
    /\ UNCHANGED input

NextGeneList == GetGeneList /\ UNCHANGED <<planVars, mergeVars, jobVars>>

GeneListStart == InitGeneList /\ PlanIdle /\ MergeIdle /\ JobsIdle

SpecGeneList == GeneListStart /\ [][NextGeneList]_vars

\* what loading the index yields: the local file when it exists and
\* force_s3 is not set, the S3 object otherwise; nothing when the read raises
LoadYields ==
    IF ~input.force_s3 /\ input.local.present THEN input.local.data
    ELSE IF input.s3.present THEN input.s3.data
    ELSE {}

\* C37: get_gene_list returns the cached entry only when force_s3 is false
\* and an entry exists; otherwise a load that yields a non-empty list
\* returns it and stores it as the entry, and a load that yields an empty
\* list or raises returns an empty list and stores nothing.
C37_CacheDiscipline ==
    output # <<>> =>
        IF ~input.force_s3 /\ input.cache.present
        THEN output.ret = input.cache.data /\ output.cache = input.cache
        ELSE IF LoadYields # {}
        THEN /\ output.ret = LoadYields
             /\ output.cache = [present |-> TRUE, data |-> LoadYields]
        ELSE output.ret = {} /\ output.cache = input.cache

\* the files load_filtered_pert_data would take as core and as fragments
\* if it started over the directory as it is now
QueryFiles ==
    IF Exists(fs, LocalCorePath)
    THEN {LocalCorePath} \cup Range(PertLocalExtFiles(fs))
    ELSE {}

\* C38: the compaction's temporary file is never taken as a fragment: a
\* compaction run does not list, join, merge or delete it as one, and a
\* query starting at any moment takes it neither as core nor as fragment.
C38_TempIsNoFragment ==
    /\ TempOutputPath \notin Range(mp["c1"].ext_files)
    /\ TempOutputPath \notin Range(mp["c1"].join_clauses_sql)
    /\ TempOutputPath \notin Range(mp["c1"].files_merged_successfully)
    /\ TempOutputPath \notin mp["c1"].removed
    /\ TempOutputPath \notin QueryFiles

\* C38 witness: the run started while a temporary file was in the
\* directory, it listed a fragment, and a query starting now would join at
\* least one fragment while the temporary file is still there.
C38_Witness ==
    /\ mp["c1"].pc \notin {"idle", "done"}
    /\ mp["c1"].start_fs[TempOutputPath] = StaleTemp
    /\ Exists(fs, TempOutputPath)
    /\ mp["c1"].ext_files # <<>>
    /\ Cardinality(QueryFiles) > 1

====
